---------------------------- MODULE Spec2Model ----------------------------
(***************************************************************************)
(* Model of the localization tooling of tmi-ux (scripts/):                 *)
(*   merge-translations.py            flatten / unflatten / merge / swap   *)
(*   find_duplicate_localizations.py  duplicate detector and keeper policy *)
(*   sync_reference_keys.py           reference keys of the locale files   *)
(*   check-i18n.py, sort-json.py      sort with backup, key comparison     *)
(*                                                                         *)
(* Representation.                                                         *)
(*   A Python str is a sequence of one-character strings, so that split,   *)
(*   join, startswith, isupper ... are computed character by character.    *)
(*   A Python dict is insertion ordered: it is a sequence of <<key, value>>*)
(*   pairs with pairwise distinct keys.  Assigning to an existing key      *)
(*   keeps the key's position, assigning to a new key appends.             *)
(*   A JSON node is a record [kind, val, items]: kind = "dict" for a       *)
(*   mapping (items = its pairs), kind = "str" for a string leaf (val =    *)
(*   its characters), "num", "bool", "null" for the other scalars (val =   *)
(*   their JSON text), and "list" for an array (items = its elements in    *)
(*   order, each paired with the empty key so that the items of every node *)
(*   have one shape).                                                      *)
(***************************************************************************)
EXTENDS Integers, Sequences, FiniteSets, TLC

(***************************************************************************)
(* Bounds of the model.                                                    *)
(***************************************************************************)
\* number of nodes (mappings and leaves) below the root of a destination tree
MaxNodes == 2
\* number of entries of a translations mapping
MaxTrans == 2
\* number of nodes below the root of a document given to the de-duplicator
MaxDedupNodes == 3
\* length of the generated final segments given to the keeper policy
MaxSegLen == 3
\* number of member paths of a group given to the keeper policy
MaxGroup == 3
\* number of nodes below the root of the master given to sync_reference_keys
MaxMasterNodes == 2
\* number of nodes below the root of the other locale file
MaxLocaleNodes == 2
\* number of nodes below the root of a tree given to the sorters
MaxSortNodes == 3

(***************************************************************************)
(* Strings.                                                                *)
(***************************************************************************)
\* The characters of the model in code point order (Python compares str by
\* code point).
Alphabet ==
  <<
     "\n", " ", ".", "1", "2", "B", "D", "E", "I", "M", "S", "T", "_", "a", "b",
     "c", "d", "e", "g", "h", "i", "j", "l", "m", "n", "o", "p", "r", "s",
     "t", "u", "v", "w", "x", "y", "{", "}" >>

Ord(c) == CHOOSE i \in 1..Len(Alphabet) : Alphabet[i] = c

UpperChars == {"B", "D", "E", "I", "M", "S", "T"}
LowerChars ==
  {
    "a", "b", "c", "d", "e", "g", "h", "i", "j", "l", "m", "n", "o", "p",
    "r", "s", "t", "u", "v", "w", "x", "y" }
DigitChars == {"1", "2"}

\* str.isupper / str.islower / str.isalpha of one character
IsUpper(c) == c \in UpperChars
IsLower(c) == c \in LowerChars
IsAlpha(c) == c \in UpperChars \cup LowerChars
\* \w of the re module on ASCII text
IsWord(c) == c \in UpperChars \cup LowerChars \cup DigitChars \cup {"_"}

\* str.lower of one character
ToLower(c) ==
  CASE c = "B" -> "b"
    [] c = "D" -> "d"
    [] c = "E" -> "e"
    [] c = "I" -> "i"
    [] c = "M" -> "m"
    [] c = "S" -> "s"
    [] c = "T" -> "t"
    [] OTHER -> c

\* s < t on Python str
RECURSIVE StrLess(_, _)
StrLess(s, t) ==
  IF t = <<>> THEN FALSE
  ELSE IF s = <<>> THEN TRUE
  ELSE IF Head(s) = Head(t) THEN StrLess(Tail(s), Tail(t))
  ELSE Ord(Head(s)) < Ord(Head(t))

\* s.split('.')
RECURSIVE SplitFrom(_, _, _)
SplitFrom(s, i, cur) ==
  IF i > Len(s) THEN <<cur>>
  ELSE IF s[i] = "." THEN <<cur>> \o SplitFrom(s, i + 1, <<>>)
  ELSE SplitFrom(s, i + 1, Append(cur, s[i]))

Split(s) == SplitFrom(s, 1, <<>>)

\* '.'.join(parts)
RECURSIVE Join(_)
Join(parts) ==
  IF parts = <<>> THEN <<>>
  ELSE IF Len(parts) = 1 THEN parts[1]
  ELSE parts[1] \o <<".">> \o Join(Tail(parts))

\* f"{prefix}.{key}" if prefix else key
FullKey(prefix, key) == IF prefix # <<>> THEN prefix \o <<".">> \o key ELSE key

\* s.startswith(p) / s.endswith(p)
StartsWith(s, p) == Len(s) >= Len(p) /\ SubSeq(s, 1, Len(p)) = p
EndsWith(s, p) == Len(s) >= Len(p) /\ SubSeq(s, Len(s) - Len(p) + 1, Len(s)) = p

(***************************************************************************)
(* Dicts and JSON nodes.                                                   *)
(***************************************************************************)
Leaf(kind, val) == [kind |-> kind, val |-> val, items |-> <<>>]
Str(val) == Leaf("str", val)
Dict(items) == [kind |-> "dict", val |-> <<>>, items |-> items]
\* a list of the nodes elems[1], elems[2], ...
List(elems) ==
  [kind |-> "list", val |-> <<>>,
   items |-> [i \in 1..Len(elems) |-> << <<>>, elems[i] >>]]
IsList(node) == node.kind = "list"
IsDict(node) == node.kind = "dict"
IsStr(node) == node.kind = "str"

\* dict.keys(), key in dict, dict[key]
DictKeys(d) == {d[i][1] : i \in 1..Len(d)}
HasKey(d, k) == \E i \in 1..Len(d) : d[i][1] = k
DictGet(d, k) == d[CHOOSE i \in 1..Len(d) : d[i][1] = k][2]

\* dict[key] = value
DictSet(d, k, v) ==
  IF HasKey(d, k)
  THEN [i \in 1..Len(d) |-> IF d[i][1] = k THEN <<k, v>> ELSE d[i]]
  ELSE Append(d, <<k, v>>)

\* dict.update(other)
RECURSIVE DictUpdate(_, _)
DictUpdate(d, other) ==
  IF other = <<>> THEN d
  ELSE DictUpdate(DictSet(d, other[1][1], other[1][2]), Tail(other))

\* a == b on two JSON values: dict equality does not look at the order
RECURSIVE NodeEq(_, _)
NodeEq(a, b) ==
  IF IsDict(a) /\ IsDict(b)
  THEN /\ DictKeys(a.items) = DictKeys(b.items)
       /\ \A k \in DictKeys(a.items) :
            NodeEq(DictGet(a.items, k), DictGet(b.items, k))
  ELSE a = b

\* a == b on two flat dicts (leaf values only)
FlatEq(a, b) ==
  /\ DictKeys(a) = DictKeys(b)
  /\ \A k \in DictKeys(a) : DictGet(a, k) = DictGet(b, k)

(***************************************************************************)
(* merge-translations.py: the pure functions.                              *)
(***************************************************************************)
RECURSIVE get_intermediate_paths(_, _)
RECURSIVE IntermediateOfItems(_, _, _)
IntermediateOfItems(items, prefix, i) ==
  IF i > Len(items) THEN {}
  ELSE (IF IsDict(items[i][2])
        THEN get_intermediate_paths(items[i][2].items,
                                    FullKey(prefix, items[i][1]))
        ELSE {})
       \cup IntermediateOfItems(items, prefix, i + 1)

get_intermediate_paths(nested, prefix) ==
  (IF prefix # <<>> THEN {prefix} ELSE {})
    \cup IntermediateOfItems(nested, prefix, 1)

RECURSIVE flatten_json_with_structure(_, _, _)
RECURSIVE FlattenItems(_, _, _, _, _)
FlattenItems(items, valid_paths, prefix, i, flat) ==
  IF i > Len(items) THEN flat
  ELSE LET key == items[i][1]
           value == items[i][2]
           full_key == FullKey(prefix, key)
       IN FlattenItems(items, valid_paths, prefix, i + 1,
            IF IsDict(value)
            THEN DictUpdate(flat,
                   flatten_json_with_structure(value.items, valid_paths,
                                               full_key))
            ELSE DictSet(flat, full_key, value))

flatten_json_with_structure(nested, valid_paths, prefix) ==
  FlattenItems(nested, valid_paths, prefix, 1, <<>>)

\* the loop of find_path_segments from token i on: result is the list of
\* closed segments, cur the tokens of the open one
RECURSIVE SegmentsFrom(_, _, _, _, _)
SegmentsFrom(parts, intermediate_paths, i, result, cur) ==
  IF i > Len(parts)
  THEN IF cur # <<>> THEN Append(result, Join(cur)) ELSE result
  ELSE LET cur2 == Append(cur, parts[i])
           current_path == Join(SubSeq(parts, 1, i))
       IN IF current_path \in intermediate_paths
          THEN SegmentsFrom(parts, intermediate_paths, i + 1,
                            Append(result, Join(cur2)), <<>>)
          ELSE SegmentsFrom(parts, intermediate_paths, i + 1, result, cur2)

\* find_path_segments that closes no segment before the end of the key
find_path_segments_OneSegment(flat_key, intermediate_paths) == << flat_key >>

find_path_segments(flat_key, intermediate_paths) ==
  SegmentsFrom(Split(flat_key), intermediate_paths, 1, <<>>, <<>>)

\* the inner loop of unflatten_json_with_structure: walk parts[:-1] from
\* current, creating or replacing by {} as needed, then set parts[-1]
RECURSIVE SetAtPath(_, _, _)
SetAtPath(current, parts, value) ==
  IF Len(parts) = 1 THEN DictSet(current, parts[1], value)
  ELSE LET part == parts[1]
           child == IF ~HasKey(current, part) THEN <<>>
                    ELSE IF ~IsDict(DictGet(current, part)) THEN <<>>
                    ELSE DictGet(current, part).items
       IN DictSet(current, part, Dict(SetAtPath(child, Tail(parts), value)))

RECURSIVE UnflattenFrom(_, _, _, _)
UnflattenFrom(flat, valid_paths, i, nested) ==
  IF i > Len(flat) THEN nested
  ELSE UnflattenFrom(flat, valid_paths, i + 1,
         SetAtPath(nested, find_path_segments(flat[i][1], valid_paths),
                   flat[i][2]))

unflatten_json_with_structure(flat, valid_paths) ==
  UnflattenFrom(flat, valid_paths, 1, <<>>)

\* sorted(obj.items()): insertion of one pair into a list sorted by key
RECURSIVE InsertSorted(_, _)
InsertSorted(sorted, pair) ==
  IF sorted = <<>> THEN <<pair>>
  ELSE IF StrLess(pair[1], sorted[1][1]) THEN <<pair>> \o sorted
  ELSE <<sorted[1]>> \o InsertSorted(Tail(sorted), pair)

RECURSIVE sort_nested_json(_)
RECURSIVE SortItems(_, _, _)
SortItems(items, i, acc) ==
  IF i > Len(items) THEN acc
  ELSE SortItems(items, i + 1,
         InsertSorted(acc, <<items[i][1], sort_nested_json(items[i][2])>>))

sort_nested_json(obj) ==
  IF IsDict(obj) THEN Dict(SortItems(obj.items, 1, <<>>)) ELSE obj

(***************************************************************************)
(* find_duplicate_localizations.py: the literals of the script.            *)
(***************************************************************************)
COMMON ==
  << "c", "o", "m", "m", "o", "n" >>
DOT_COMMENT ==
  << ".", "c", "o", "m", "m", "e", "n", "t" >>
THREAT_STATUS_PREFIX ==
  << "t", "h", "r", "e", "a", "t", "E", "d", "i", "t", "o", "r", ".", "t",
    "h", "r", "e", "a", "t", "S", "t", "a", "t", "u", "s", "." >>
MODEL_STATUS_PREFIX ==
  << "t", "h", "r", "e", "a", "t", "M", "o", "d", "e", "l", "s", ".", "s",
    "t", "a", "t", "u", "s", "." >>
PRIVACY ==
  << "p", "r", "i", "v", "a", "c", "y" >>
TOS ==
  << "t", "o", "s" >>
OBJECT_TYPES ==
  << "o", "b", "j", "e", "c", "t", "T", "y", "p", "e", "s" >>
VALIDATION ==
  << "v", "a", "l", "i", "d", "a", "t", "i", "o", "n" >>
ROLES ==
  << "r", "o", "l", "e", "s" >>

(***************************************************************************)
(* State.                                                                  *)
(***************************************************************************)
VARIABLES
  pc,              \* position of the running script
  fs,              \* the files: path -> [st, doc]
  original,        \* merge_translations: the loaded localization document
  translations,    \* merge_translations: the extracted flat translations
  valid_paths,     \* merge_translations: the interior-path set
  flat_original,   \* merge_translations: flatten of original
  flat_merged,     \* merge_translations: the merged flat mapping
  keys_updated,
  keys_added,
  keys_unchanged,
  total_keys,
  merged_nested,   \* merge_translations: unflatten of flat_merged
  merged_sorted,   \* merge_translations: sort of merged_nested
  valid,           \* merge_translations: result of validate_json_file
  summary,         \* merge_translations: the returned summary
  skip_policy,        \* LocalizationDeDuplicator.skip_policy
  reference_mode,     \* LocalizationDeDuplicator.reference_mode
  localization_data,  \* LocalizationDeDuplicator.localization_data
  key_value_map,      \* LocalizationDeDuplicator.key_value_map
  value_to_keys,      \* LocalizationDeDuplicator.value_to_keys
  dedup_plan,         \* LocalizationDeDuplicator.dedup_plan
  keeper,             \* result of choose_keeper
  target_key,         \* result of make_target_key
  args_fix,           \* sync_reference_keys.main: args.fix
  master_data,        \* sync_reference_keys.main: the loaded master
  reference_keys,     \* sync_reference_keys.main: find_reference_keys(master)
  mismatches,         \* sync_reference_keys.main: result of check_locale_file
  fixed,              \* sync_reference_keys.main: result of fix_locale_file
  main_data,          \* check-i18n main: the sorted main document
  diff_data,          \* check-i18n main: the sorted diff document
  main_success,       \* check-i18n main: success
  auto_yes,           \* check-i18n main: --yes
  diff_files,         \* check-i18n main: the diff files given
  printed,            \* the messages main printed, with the file
  locale_files,       \* sync_reference_keys.main: the sibling files
  file_index,         \* sync_reference_keys.main: position of the for loop
  total_mismatches,   \* sync_reference_keys.main
  total_fixes,        \* sync_reference_keys.main
  call_args,          \* a function called on its own: its arguments
  call_ret,           \* a function called on its own: what it returned
  result              \* the value main returned

\* the state of merge_translations
merge_vars ==
  << original, translations, valid_paths, flat_original, flat_merged,
     keys_updated, keys_added, keys_unchanged, total_keys, merged_nested,
     merged_sorted, valid, summary >>

\* the state of a LocalizationDeDuplicator
dedup_vars ==
  << skip_policy, reference_mode, localization_data, key_value_map,
     value_to_keys, dedup_plan, keeper, target_key >>

\* the state of sync_reference_keys.main
sync_vars == << args_fix, master_data, reference_keys, mismatches, fixed >>

\* the state of main of check-i18n.py and sort-json.py
sort_vars ==
  << main_data, diff_data, main_success, auto_yes, diff_files, printed >>

\* the loop of sync_reference_keys.main over the sibling files
batch_vars == << locale_files, file_index, total_mismatches, total_fixes >>

\* a function called on its own
unit_vars == << call_args, call_ret >>

tool_vars == << sync_vars, sort_vars, batch_vars, unit_vars, result >>

vars == << pc, fs, merge_vars, dedup_vars, tool_vars >>

(***************************************************************************)
(* find_duplicate_localizations.py: LocalizationDeDuplicator.              *)
(***************************************************************************)
\* sub in s
Contains(s, sub) ==
  \E i \in 1..(Len(s) - Len(sub) + 1) : SubSeq(s, i, i + Len(sub) - 1) = sub

\* should_skip_key without the skip_policy branch
should_skip_key_NoPolicy(key) ==
  IF EndsWith(key, DOT_COMMENT) THEN TRUE
  ELSE IF StartsWith(key, THREAT_STATUS_PREFIX)
            \/ StartsWith(key, MODEL_STATUS_PREFIX) THEN TRUE
  ELSE FALSE

should_skip_key(key) ==
  IF EndsWith(key, DOT_COMMENT) THEN TRUE
  ELSE IF StartsWith(key, THREAT_STATUS_PREFIX)
            \/ StartsWith(key, MODEL_STATUS_PREFIX) THEN TRUE
  ELSE IF skip_policy THEN Split(key)[1] \in {PRIVACY, TOS}
  ELSE FALSE

\* is_key_reference with the pattern \{\{\w+\}\}: a dot is not accepted
is_key_reference_NoDot(value) ==
  /\ Len(value) >= 5
  /\ SubSeq(value, 1, 2) = <<"{", "{">>
  /\ SubSeq(value, Len(value) - 1, Len(value)) = <<"}", "}">>
  /\ \A i \in 3..(Len(value) - 2) : IsWord(value[i])

\* re.fullmatch(r'\{\{[\w.]+\}\}', value)
is_key_reference(value) ==
  /\ Len(value) >= 5
  /\ SubSeq(value, 1, 2) = <<"{", "{">>
  /\ SubSeq(value, Len(value) - 1, Len(value)) = <<"}", "}">>
  /\ \A i \in 3..(Len(value) - 2) : IsWord(value[i]) \/ value[i] = "."

\* self.value_to_keys[value].append(full_key) on the defaultdict(list)
AppendKey(vtk, value, full_key) ==
  DictSet(vtk, value,
          Append(IF HasKey(vtk, value) THEN DictGet(vtk, value) ELSE <<>>,
                 full_key))

\* extract_key_value_pairs: the loop over data.items() from entry i on;
\* st holds key_value_map and value_to_keys
RECURSIVE ExtractItems(_, _, _, _)
ExtractItems(data, prefix, i, st) ==
  IF i > Len(data) THEN st
  ELSE LET key == data[i][1]
           value == data[i][2]
           full_key == FullKey(prefix, key)
       IN ExtractItems(data, prefix, i + 1,
            IF should_skip_key(full_key) THEN st
            ELSE IF IsDict(value)
                 THEN ExtractItems(value.items, full_key, 1, st)
            ELSE IF IsStr(value)
                 THEN IF is_key_reference(value.val) THEN st
                      ELSE [key_value_map |->
                              DictSet(st.key_value_map, full_key, value.val),
                            value_to_keys |->
                              AppendKey(st.value_to_keys, value.val, full_key)]
            ELSE st)

extract_key_value_pairs(data, st) == ExtractItems(data, <<>>, 1, st)

\* any(c.isupper() for c in last_part[1:])
AnyUpperAfterFirst(last_part) ==
  \E i \in 2..Len(last_part) : IsUpper(last_part[i])

\* score_key that prefers every section but common
score_key_SectionSwapped(key) ==
  LET parts == Split(key)
      last_part == parts[Len(parts)]
  IN << IF parts[1] = COMMON THEN 1 ELSE 0,
        (IF last_part # <<>> /\ IsUpper(last_part[1]) THEN 1 ELSE 0)
          + (IF AnyUpperAfterFirst(last_part)
                  /\ ~(\A i \in 2..Len(last_part) :
                         IsUpper(last_part[i]) \/ ~IsAlpha(last_part[i]))
             THEN 1 ELSE 0),
        Len(Join(parts)) >>

\* score_key: (section_score, camelcase_score, length_score)
score_key(key) ==
  LET parts == Split(key)
      last_part == parts[Len(parts)]
      section_score == IF parts[1] = COMMON THEN 0 ELSE 1
      camelcase_score ==
        (IF last_part # <<>> /\ IsUpper(last_part[1]) THEN 1 ELSE 0)
          + (IF AnyUpperAfterFirst(last_part)
                  /\ ~(\A i \in 2..Len(last_part) :
                         IsUpper(last_part[i]) \/ ~IsAlpha(last_part[i]))
             THEN 1 ELSE 0)
      length_score == Len(Join(parts))
  IN << section_score, camelcase_score, length_score >>

\* a < b on two (score, key) tuples
ScoredLess(a, b) ==
  LET sa == a[1]
      sb == b[1]
  IN IF sa[1] # sb[1] THEN sa[1] < sb[1]
     ELSE IF sa[2] # sb[2] THEN sa[2] < sb[2]
     ELSE IF sa[3] # sb[3] THEN sa[3] < sb[3]
     ELSE StrLess(a[2], b[2])

\* list.sort() of (score, key) tuples: insertion of one tuple
RECURSIVE InsertScored(_, _)
InsertScored(sorted, x) ==
  IF sorted = <<>> THEN <<x>>
  ELSE IF ScoredLess(x, sorted[1]) THEN <<x>> \o sorted
  ELSE <<sorted[1]>> \o InsertScored(Tail(sorted), x)

RECURSIVE SortScored(_, _, _)
SortScored(scored_keys, i, acc) ==
  IF i > Len(scored_keys) THEN acc
  ELSE SortScored(scored_keys, i + 1, InsertScored(acc, scored_keys[i]))

choose_keeper(keys) ==
  LET scored_keys == [i \in 1..Len(keys) |-> <<score_key(keys[i]), keys[i]>>]
  IN SortScored(scored_keys, 1, <<>>)[1][2]

\* lines 127-138: the camelCase loop of make_target_key
CamelCase(last_part) ==
  [i \in 1..Len(last_part) |->
     LET c == last_part[i]
     IN IF i = 1 THEN ToLower(c)
        ELSE IF IsUpper(c) /\ i < Len(last_part)
             THEN IF IsLower(last_part[i - 1])
                       \/ (i < Len(last_part) /\ IsLower(last_part[i + 1]))
                  THEN c
                  ELSE ToLower(c)
        ELSE c]

\* lines 115-138: the final segment with its casing fixed
FixedLastPart(keeper_key) ==
  LET parts == Split(keeper_key)
      last_part0 == parts[Len(parts)]
      last_part1 == IF last_part0 # <<>> /\ IsUpper(last_part0[1])
                    THEN <<ToLower(last_part0[1])>> \o Tail(last_part0)
                    ELSE last_part0
  IN IF AnyUpperAfterFirst(last_part1) THEN CamelCase(last_part1)
     ELSE last_part1

\* set(k.split('.')[0] for k in all_keys)
Sections(all_keys) == {Split(all_keys[i])[1] : i \in 1..Len(all_keys)}

make_target_key(keeper_key, value) ==
  LET parts == Split(keeper_key)
      last_part == FixedLastPart(keeper_key)
      same_section == Join(Append(SubSeq(parts, 1, Len(parts) - 1), last_part))
      all_keys == IF HasKey(value_to_keys, value)
                  THEN DictGet(value_to_keys, value) ELSE <<>>
  IN IF parts[1] = COMMON THEN same_section
     ELSE IF Len(all_keys) >= 3 \/ Cardinality(Sections(all_keys)) > 1
          THEN IF Contains(keeper_key, OBJECT_TYPES)
               THEN COMMON \o <<".">> \o OBJECT_TYPES \o <<".">> \o last_part
               ELSE IF Contains(keeper_key, VALIDATION)
               THEN COMMON \o <<".">> \o VALIDATION \o <<".">> \o last_part
               ELSE IF Contains(keeper_key, ROLES)
               THEN COMMON \o <<".">> \o ROLES \o <<".">> \o last_part
               ELSE COMMON \o <<".">> \o last_part
     ELSE same_section

\* keys.sort() on a list of str
RECURSIVE InsertStr(_, _)
InsertStr(sorted, x) ==
  IF sorted = <<>> THEN <<x>>
  ELSE IF StrLess(x, sorted[1]) THEN <<x>> \o sorted
  ELSE <<sorted[1]>> \o InsertStr(Tail(sorted), x)

RECURSIVE SortStrs(_, _, _)
SortStrs(keys, i, acc) ==
  IF i > Len(keys) THEN acc
  ELSE SortStrs(keys, i + 1, InsertStr(acc, keys[i]))

\* PlanKey that never moves the keeper
PlanKey_NoMove(key, keeper_key, target) ==
  IF reference_mode
  THEN IF key = keeper_key
       THEN [key |-> key, action |-> "KEEP", instruction |-> <<"KEEP", key>>,
             refactor |-> <<>>]
       ELSE [key |-> key, action |-> "REFER",
             instruction |-> <<"REFER", key, "TO",
                               <<"{", "{">> \o keeper_key \o <<"}", "}">> >>,
             refactor |-> <<>>]
  ELSE IF key = keeper_key
       THEN [key |-> key, action |-> "KEEP",
             instruction |-> <<"KEEP", key>>,
             refactor |-> <<"REFACTOR no changes needed for", key>>]
       ELSE [key |-> key, action |-> "DELETE",
             instruction |-> <<"DELETE", key>>,
             refactor |-> <<"REFACTOR rename", key, "to", target>>]

\* lines 183-221: the plan entry of one member of a group
PlanKey(key, keeper_key, target) ==
  IF reference_mode
  THEN IF key = keeper_key
       THEN [key |-> key, action |-> "KEEP", instruction |-> <<"KEEP", key>>,
             refactor |-> <<>>]
       ELSE [key |-> key, action |-> "REFER",
             instruction |-> <<"REFER", key, "TO",
                               <<"{", "{">> \o keeper_key \o <<"}", "}">> >>,
             refactor |-> <<>>]
  ELSE IF key = keeper_key
       THEN IF key = target
            THEN [key |-> key, action |-> "KEEP",
                  instruction |-> <<"KEEP", key>>,
                  refactor |-> <<"REFACTOR no changes needed for", key>>]
            ELSE [key |-> key, action |-> "MOVE",
                  instruction |-> <<"MOVE", key, "TO", target>>,
                  refactor |-> <<"REFACTOR rename", key, "to", target>>]
       ELSE [key |-> key, action |-> "DELETE",
             instruction |-> <<"DELETE", key>>,
             refactor |-> <<"REFACTOR rename", key, "to", target>>]

(***************************************************************************)
(* Files.  A file is absent, complete (it holds the whole JSON text of     *)
(* doc) or partial (a write of doc's text that did not finish: not         *)
(* parseable).  json.dump followed by json.load gives back the same        *)
(* document with its key order, so a complete file is kept as its document.*)
(***************************************************************************)
NoDoc == Dict(<<>>)
Absent == [st |-> "absent", doc |-> NoDoc]
Complete(doc) == [st |-> "complete", doc |-> doc]
Partial(doc) == [st |-> "partial", doc |-> doc]

\* the paths of one merge run: localization_path, translations_path,
\* f"{localization_path}.tmp" and f"{localization_path}.{timestamp}.bak"
Paths ==
  { "loc", "trans", "tmp", "bak",
    \* sync_reference_keys: the master locale file and two other locale files
    "master", "locale", "locale2",
    \* check-i18n / sort-json: the main file, one diff file and their
    \* backups os.path.join(tmp_dir, f"old-{base_name}")
    "main", "diff", "old_main", "old_diff" }

(***************************************************************************)
(* Inputs.                                                                 *)
(***************************************************************************)
KeyNames == { <<"a">>, <<"b">>, <<"a", ".", "b">> }
LeafValues == { Str(<<"1">>) }
TransKeys == { <<"a">>, <<"b">>, <<"a", ".", "b">> }
TransValues == { Str(<<"1">>), Str(<<"2">>) }
TRANSLATIONS ==
  <<"t", "r", "a", "n", "s", "l", "a", "t", "i", "o", "n", "s">>

\* the nodes made of exactly n nodes, and the dicts (as item lists) with
\* exactly n nodes below them; keys of one dict are pairwise distinct
RECURSIVE NodesOfSize(_)
RECURSIVE ItemsOfSize(_)
ItemsOfSize(n) ==
  IF n = 0 THEN { <<>> }
  ELSE UNION { UNION { { << <<k, c>> >> \o rest :
                           rest \in { r \in ItemsOfSize(n - m) :
                                        ~HasKey(r, k) } } :
                       k \in KeyNames, c \in NodesOfSize(m) } :
               m \in 1..n }

NodesOfSize(n) ==
  IF n = 1 THEN LeafValues \cup { Dict(<<>>) }
  ELSE { Dict(items) : items \in ItemsOfSize(n - 1) }

\* the destination documents: every tree with at most MaxNodes nodes
DestTrees == UNION { { Dict(items) : items \in ItemsOfSize(n) } : n \in 0..MaxNodes }

\* the flat translation mappings with at most MaxTrans entries
RECURSIVE FlatOfLen(_)
FlatOfLen(n) ==
  IF n = 0 THEN { <<>> }
  ELSE UNION { { Append(r, <<k, v>>) : k \in TransKeys \ DictKeys(r),
                                       v \in TransValues } :
               r \in FlatOfLen(n - 1) }

TransMaps == UNION { FlatOfLen(n) : n \in 0..MaxTrans }

\* the translation documents: a bare flat mapping, or an envelope with a
\* "translations" field
TransDocs ==
  { Dict(x) : x \in TransMaps }
    \cup { Dict(<< <<TRANSLATIONS, Dict(x)>> >>) : x \in TransMaps }

(***************************************************************************)
(* merge_translations, step by step.                                       *)
(***************************************************************************)
NoSummary ==
  [returned |-> FALSE, keys_updated |-> 0, keys_added |-> 0,
   keys_unchanged |-> 0, total_keys |-> 0, backup_file |-> "none",
   success |-> FALSE, error |-> "none"]

\* make_summary with the counts gathered so far
make_summary(ku, ka, kun, tk, backup_file, success, error) ==
  [returned |-> TRUE, keys_updated |-> ku, keys_added |-> ka,
   keys_unchanged |-> kun, total_keys |-> tk, backup_file |-> backup_file,
   success |-> success, error |-> error]

\* neither sync_reference_keys nor a sort tool is running
\* sync_reference_keys.main is in no loop, no function is called on its own
BatchIdle ==
  /\ call_args = <<>>
  /\ call_ret = <<>>
  /\ locale_files = <<>>
  /\ file_index = 0
  /\ total_mismatches = 0
  /\ total_fixes = 0

ToolsIdle ==
  /\ BatchIdle
  /\ args_fix = FALSE
  /\ master_data = NoDoc
  /\ reference_keys = <<>>
  /\ mismatches = <<>>
  /\ fixed = 0
  /\ main_data = NoDoc
  /\ diff_data = NoDoc
  /\ main_success = FALSE
  /\ auto_yes = FALSE
  /\ diff_files = <<>>
  /\ printed = {}
  /\ result = "none"

\* no de-duplicator exists
DedupIdle ==
  /\ skip_policy = FALSE
  /\ reference_mode = FALSE
  /\ localization_data = NoDoc
  /\ key_value_map = <<>>
  /\ value_to_keys = <<>>
  /\ dedup_plan = <<>>
  /\ keeper = <<>>
  /\ target_key = <<>>

MergeInit ==
  /\ pc = "load_original"
  /\ \E d \in DestTrees, x \in TransDocs :
       fs = [p \in Paths |->
               CASE p = "loc" -> Complete(d)
                 [] p = "trans" -> Complete(x)
                 [] OTHER -> Absent]
  /\ original = NoDoc
  /\ translations = <<>>
  /\ valid_paths = {}
  /\ flat_original = <<>>
  /\ flat_merged = <<>>
  /\ keys_updated = 0
  /\ keys_added = 0
  /\ keys_unchanged = 0
  /\ total_keys = 0
  /\ merged_nested = NoDoc
  /\ merged_sorted = NoDoc
  /\ valid = FALSE
  /\ summary = NoSummary
  /\ DedupIdle
  /\ ToolsIdle

\* the files after a step on one path
FsWith(path, file) == [fs EXCEPT ![path] = file]

MergeLocals ==
  << original, translations, valid_paths, flat_original, flat_merged,
     keys_updated, keys_added, keys_unchanged, total_keys, merged_nested,
     merged_sorted >>

\* return make_summary(...) with the counts gathered so far
Return(backup_file, success, error) ==
  /\ summary' = make_summary(keys_updated, keys_added, keys_unchanged,
                             total_keys, backup_file, success, error)
  /\ pc' = "done"

\* lines 191-193: load_json_file(localization_path) succeeds
LoadOriginal ==
  /\ pc = "load_original"
  /\ fs["loc"].st = "complete"
  /\ original' = fs["loc"].doc
  /\ pc' = "load_translations"
  /\ UNCHANGED << tool_vars, dedup_vars, fs, translations, valid_paths, flat_original, flat_merged,
                  keys_updated, keys_added, keys_unchanged, total_keys,
                  merged_nested, merged_sorted, valid, summary >>

\* lines 194-195: load_json_file(localization_path) raises (unreadable or
\* unparseable file)
LoadOriginalFails ==
  /\ pc = "load_original"
  /\ Return("none", FALSE, "Failed to load localization file")
  /\ UNCHANGED << tool_vars, dedup_vars, fs, MergeLocals, valid >>

\* lines 204-205 on a document of any JSON type: the exception that
\* "translations" in translations_data or the subscript raises, if any
ExtractRaised(translations_data) ==
  CASE translations_data.kind = "dict" -> "none"
    [] translations_data.kind = "str" ->
         IF Contains(translations_data.val, TRANSLATIONS)
         THEN "TypeError" ELSE "none"
    [] translations_data.kind = "list" ->
         IF \E i \in 1..Len(translations_data.items) :
              translations_data.items[i][2] = Str(TRANSLATIONS)
         THEN "TypeError" ELSE "none"
    [] OTHER -> "TypeError"

\* lines 204-207: the value bound to translations
TranslationsNode(translations_data) ==
  IF IsDict(translations_data) /\ HasKey(translations_data.items, TRANSLATIONS)
  THEN DictGet(translations_data.items, TRANSLATIONS)
  ELSE translations_data

\* lines 203-207: the translations dict of a loaded translations document
ExtractTranslations(translations_data) ==
  IF HasKey(translations_data.items, TRANSLATIONS)
  THEN DictGet(translations_data.items, TRANSLATIONS).items
  ELSE translations_data.items

\* lines 197-207: load_json_file(translations_path) succeeds
LoadTranslations ==
  /\ pc = "load_translations"
  /\ fs["trans"].st = "complete"
  /\ ExtractRaised(fs["trans"].doc) = "none"
  /\ IsDict(TranslationsNode(fs["trans"].doc))
  /\ translations' = ExtractTranslations(fs["trans"].doc)
  /\ pc' = "merge"
  /\ UNCHANGED << tool_vars, dedup_vars, fs, original, valid_paths, flat_original, flat_merged,
                  keys_updated, keys_added, keys_unchanged, total_keys,
                  merged_nested, merged_sorted, valid, summary >>

\* lines 200-201: load_json_file(translations_path) raises
LoadTranslationsFails ==
  /\ pc = "load_translations"
  /\ Return("none", FALSE, "Failed to load translations file")
  /\ UNCHANGED << tool_vars, dedup_vars, fs, MergeLocals, valid >>

\* lines 221-232: the loop over translations.items(), from entry i on;
\* st holds flat_merged, the three counters and valid_paths
RECURSIVE MergeLoop(_, _, _)
MergeLoop(trans, i, st) ==
  IF i > Len(trans) THEN st
  ELSE LET key == trans[i][1]
           value == trans[i][2]
       IN MergeLoop(trans, i + 1,
            IF HasKey(st.flat_merged, key)
            THEN IF DictGet(st.flat_merged, key) # value
                 THEN [st EXCEPT !.flat_merged = DictSet(@, key, value),
                                 !.keys_updated = @ + 1]
                 ELSE [st EXCEPT !.keys_unchanged = @ + 1]
            ELSE [st EXCEPT !.flat_merged = DictSet(@, key, value),
                            !.keys_added = @ + 1,
                            !.valid_paths = @ \cup {key}])

\* CountNotIn without the test of line 236: every destination key counts
RECURSIVE CountNotIn_NoTest(_, _, _)
CountNotIn_NoTest(flat, trans, i) ==
  IF i > Len(flat) THEN 0 ELSE 1 + CountNotIn_NoTest(flat, trans, i + 1)

\* lines 235-237: the destination keys that the translations do not name
RECURSIVE CountNotIn(_, _, _)
CountNotIn(flat, trans, i) ==
  IF i > Len(flat) THEN 0
  ELSE (IF ~HasKey(trans, flat[i][1]) THEN 1 ELSE 0)
       + CountNotIn(flat, trans, i + 1)

\* lines 209-245: flatten, merge, count, unflatten, sort (no file is touched)
Merge ==
  /\ pc = "merge"
  /\ IsDict(original)
  /\ LET vp0 == get_intermediate_paths(original.items, <<>>)
         fo == flatten_json_with_structure(original.items, vp0, <<>>)
         st == MergeLoop(translations, 1,
                 [flat_merged |-> fo, keys_updated |-> 0, keys_added |-> 0,
                  keys_unchanged |-> 0, valid_paths |-> vp0])
         mn == Dict(unflatten_json_with_structure(st.flat_merged,
                                                  st.valid_paths))
     IN /\ flat_original' = fo
        /\ flat_merged' = st.flat_merged
        /\ valid_paths' = st.valid_paths
        /\ keys_updated' = st.keys_updated
        /\ keys_added' = st.keys_added
        /\ keys_unchanged' = st.keys_unchanged + CountNotIn(fo, translations, 1)
        /\ total_keys' = Len(st.flat_merged)
        /\ merged_nested' = mn
        /\ merged_sorted' = sort_nested_json(mn)
  /\ pc' = "write_temp"
  /\ UNCHANGED << tool_vars, dedup_vars, fs, original, translations, valid, summary >>

\* WriteTemp that writes the merged document over the destination itself
WriteTemp_InPlace ==
  /\ pc = "write_temp"
  /\ fs' = [fs EXCEPT !["loc"] = Complete(merged_sorted),
                      !["tmp"] = Complete(merged_sorted)]
  /\ pc' = "validate"
  /\ UNCHANGED << tool_vars, dedup_vars, MergeLocals, valid, summary >>

\* lines 248-250: save_json_file(temp_path, merged_sorted) succeeds
WriteTemp ==
  /\ pc = "write_temp"
  /\ fs' = FsWith("tmp", Complete(merged_sorted))
  /\ pc' = "validate"
  /\ UNCHANGED << tool_vars, dedup_vars, MergeLocals, valid, summary >>

\* lines 251-258: save_json_file raises: at open (no file is made) or while
\* writing (a part of the text is on disk)
WriteTempFails ==
  /\ pc = "write_temp"
  /\ \/ fs' = fs
     \/ fs' = FsWith("tmp", Partial(merged_sorted))
  /\ Return("none", FALSE, "Failed to write temporary file")
  /\ UNCHANGED << tool_vars, dedup_vars, MergeLocals, valid >>

\* lines 143-152, 261: validate_json_file(temp_path): the file is read and
\* parsed; any exception gives (False, message)
Validate ==
  /\ pc = "validate"
  /\ \/ valid' = (fs["tmp"].st = "complete")
     \/ valid' = FALSE
  /\ pc' = "check_valid"
  /\ UNCHANGED << tool_vars, dedup_vars, fs, MergeLocals, summary >>

\* lines 262-270: not valid: os.remove(temp_path) and return
ValidationFailed ==
  /\ pc = "check_valid"
  /\ ~valid
  /\ fs' = FsWith("tmp", Absent)
  /\ Return("none", FALSE, "Validation failed")
  /\ UNCHANGED << tool_vars, dedup_vars, MergeLocals, valid >>

\* CreateBackup that does not wait for the validation result
CreateBackup_Unvalidated ==
  /\ pc = "check_valid"
  /\ fs' = [fs EXCEPT !["bak"] = fs["loc"], !["loc"] = Absent]
  /\ pc' = "swap"
  /\ UNCHANGED << tool_vars, dedup_vars, MergeLocals, valid, summary >>

\* lines 155-160, 274: create_backup: os.rename(original_path, backup_path)
CreateBackup ==
  /\ pc = "check_valid"
  /\ valid
  /\ fs' = [fs EXCEPT !["bak"] = fs["loc"], !["loc"] = Absent]
  /\ pc' = "swap"
  /\ UNCHANGED << tool_vars, dedup_vars, MergeLocals, valid, summary >>

\* SwapCleanup that reports the run as successful
SwapCleanup_ReportsSuccess ==
  /\ fs' = IF fs["tmp"].st # "absent" THEN FsWith("tmp", Absent) ELSE fs
  /\ Return("bak", TRUE, "none")
  /\ UNCHANGED << tool_vars, dedup_vars, MergeLocals, valid >>

\* lines 276-286: the except branch of the swap: remove the temp file if it
\* exists and return the failure
SwapCleanup ==
  /\ fs' = IF fs["tmp"].st # "absent" THEN FsWith("tmp", Absent) ELSE fs
  /\ Return("none", FALSE, "Failed to swap files")
  /\ UNCHANGED << tool_vars, dedup_vars, MergeLocals, valid >>

\* line 274 raises: the original was not renamed
CreateBackupFails ==
  /\ pc = "check_valid"
  /\ valid
  /\ SwapCleanup

\* line 275: os.rename(temp_path, localization_path), then lines 288-295
SwapTemp ==
  /\ pc = "swap"
  /\ fs' = [fs EXCEPT !["loc"] = fs["tmp"], !["tmp"] = Absent]
  /\ Return("bak", TRUE, "none")
  /\ UNCHANGED << tool_vars, dedup_vars, MergeLocals, valid >>

\* line 275 raises: the temp file was not moved
SwapTempFails ==
  /\ pc = "swap"
  /\ SwapCleanup

MergeNext ==
  \/ LoadOriginal
  \/ LoadOriginalFails
  \/ LoadTranslations
  \/ LoadTranslationsFails
  \/ Merge
  \/ WriteTemp
  \/ WriteTempFails
  \/ Validate
  \/ ValidationFailed
  \/ CreateBackup
  \/ CreateBackupFails
  \/ SwapTemp
  \/ SwapTempFails

Spec == MergeInit /\ [][MergeNext]_vars

(***************************************************************************)
(* merge_translations on documents of any JSON type: json.load accepts a   *)
(* document that is not a mapping, and lines 203-245 are in no try block.  *)
(***************************************************************************)
\* no merge_translations call is in progress
MergeIdle ==
  /\ original = NoDoc
  /\ translations = <<>>
  /\ valid_paths = {}
  /\ flat_original = <<>>
  /\ flat_merged = <<>>
  /\ keys_updated = 0
  /\ keys_added = 0
  /\ keys_unchanged = 0
  /\ total_keys = 0
  /\ merged_nested = NoDoc
  /\ merged_sorted = NoDoc
  /\ valid = FALSE
  /\ summary = NoSummary

AnyDocs ==
  { Dict(<<>>),
    Dict(<< << <<"a">>, Str(<<"1">>) >> >>),
    Dict(<< << TRANSLATIONS, Dict(<< << <<"a">>, Str(<<"2">>) >> >>) >> >>),
    Dict(<< << TRANSLATIONS, Leaf("num", <<"1">>) >> >>),
    Dict(<< << TRANSLATIONS, Str(<<"h">>) >> >>),
    Leaf("num", <<"1">>),
    Leaf("null", <<"null">>),
    Str(<<"h">>),
    Str(TRANSLATIONS),
    List(<<>>),
    List(<< Str(TRANSLATIONS) >>) }

AnyDocInit ==
  /\ pc = "load_original"
  /\ \E d \in AnyDocs, x \in AnyDocs :
       fs = [p \in Paths |->
               CASE p = "loc" -> Complete(d)
                 [] p = "trans" -> Complete(x)
                 [] OTHER -> Absent]
  /\ MergeIdle
  /\ DedupIdle
  /\ ToolsIdle

\* lines 204-205: "translations" in translations_data, or the subscript,
\* raises TypeError; nothing catches it
ExtractTranslationsRaises ==
  /\ pc = "load_translations"
  /\ fs["trans"].st = "complete"
  /\ ExtractRaised(fs["trans"].doc) # "none"
  /\ pc' = "raised"
  /\ UNCHANGED << tool_vars, dedup_vars, fs, MergeLocals, valid, summary >>

\* lines 204-221: translations is bound to a value that is not a mapping;
\* translations.items() raises AttributeError (line 221), unless
\* original.items() already did (line 210); nothing catches it
TranslationsItemsRaises ==
  /\ pc = "load_translations"
  /\ fs["trans"].st = "complete"
  /\ ExtractRaised(fs["trans"].doc) = "none"
  /\ ~IsDict(TranslationsNode(fs["trans"].doc))
  /\ pc' = "raised"
  /\ UNCHANGED << tool_vars, dedup_vars, fs, MergeLocals, valid, summary >>

\* line 210: get_intermediate_paths(original) calls original.items() on a
\* document that is not a mapping: AttributeError; nothing catches it
OriginalItemsRaises ==
  /\ pc = "merge"
  /\ ~IsDict(original)
  /\ pc' = "raised"
  /\ UNCHANGED << tool_vars, dedup_vars, fs, MergeLocals, valid, summary >>

AnyDocNext ==
  \/ MergeNext
  \/ ExtractTranslationsRaises
  \/ TranslationsItemsRaises
  \/ OriginalItemsRaises

SpecAnyDoc == AnyDocInit /\ [][AnyDocNext]_vars

(***************************************************************************)
(* LocalizationDeDuplicator.run, step by step.                             *)
(***************************************************************************)
\* the keys of the documents, in the order in which a document lists them
DedupKeys == << <<"a">>, <<"a", ".", "b">>, <<"b">>,
                <<"c", "o", "m", "m", "e", "n", "t">> >>
\* leaves: two texts, a reference to another key, a number
DedupLeaves ==
  { Str(<<"h">>), Str(<<"w">>),
    Str(<<"{", "{", "c", ".", "o", "}", "}">>), Leaf("num", <<"1">>) }

\* the item lists with exactly n nodes whose keys are DedupKeys[j..], and
\* the nodes made of exactly n nodes
RECURSIVE DedupItems(_, _)
RECURSIVE DedupNodes(_)
DedupItems(n, j) ==
  IF n = 0 THEN { <<>> }
  ELSE IF j > Len(DedupKeys) THEN {}
  ELSE DedupItems(n, j + 1)
       \cup UNION { { << <<DedupKeys[j], c>> >> \o rest :
                        c \in DedupNodes(m), rest \in DedupItems(n - m, j + 1) } :
                    m \in 1..n }

DedupNodes(n) ==
  IF n = 1 THEN DedupLeaves \cup { Dict(<<>>) }
  ELSE { Dict(items) : items \in DedupItems(n - 1, 1) }


\* lines 23-30: __init__
DedupInit ==
  /\ pc = "load_localization_file"
  /\ \E n \in 0..MaxDedupNodes : \E items \in DedupItems(n, 1) :
       fs = [p \in Paths |-> IF p = "loc" THEN Complete(Dict(items)) ELSE Absent]
  /\ skip_policy \in BOOLEAN
  /\ reference_mode \in BOOLEAN
  /\ localization_data = NoDoc
  /\ key_value_map = <<>>
  /\ value_to_keys = <<>>
  /\ dedup_plan = <<>>
  /\ keeper = <<>>
  /\ target_key = <<>>
  /\ MergeIdle
  /\ ToolsIdle

\* lines 32-35
LoadLocalizationFile ==
  /\ pc = "load_localization_file"
  /\ fs["loc"].st = "complete"
  /\ localization_data' = fs["loc"].doc
  /\ pc' = "extract_key_value_pairs"
  /\ UNCHANGED << tool_vars, fs, merge_vars, skip_policy, reference_mode, key_value_map,
                  value_to_keys, dedup_plan, keeper, target_key >>

\* lines 57-75, called on the whole document
ExtractKeyValuePairs ==
  /\ pc = "extract_key_value_pairs"
  /\ LET st == extract_key_value_pairs(localization_data.items,
                 [key_value_map |-> key_value_map,
                  value_to_keys |-> value_to_keys])
     IN /\ key_value_map' = st.key_value_map
        /\ value_to_keys' = st.value_to_keys
  /\ pc' = "create_dedup_plan"
  /\ UNCHANGED << tool_vars, fs, merge_vars, skip_policy, reference_mode,
                  localization_data, dedup_plan, keeper, target_key >>

\* lines 166-223: the loop over value_to_keys.items() from entry i on; st
\* holds dedup_plan and value_to_keys (keys.sort() sorts the list in place)
RECURSIVE PlanFrom(_, _)
PlanFrom(i, st) ==
  IF i > Len(value_to_keys) THEN st
  ELSE LET value == value_to_keys[i][1]
           keys0 == value_to_keys[i][2]
       IN IF Len(keys0) < 2 THEN PlanFrom(i + 1, st)
          ELSE LET keys == SortStrs(keys0, 1, <<>>)
                   keeper_key == choose_keeper(keys)
                   target == make_target_key(keeper_key, value)
                   plan_entry ==
                     [value |-> value,
                      keys |-> [n \in 1..Len(keys) |->
                                  PlanKey(keys[n], keeper_key, target)]]
               IN PlanFrom(i + 1,
                    [dedup_plan |-> Append(st.dedup_plan, plan_entry),
                     value_to_keys |-> DictSet(st.value_to_keys, value, keys)])

\* lines 164-223
CreateDedupPlan ==
  /\ pc = "create_dedup_plan"
  /\ LET st == PlanFrom(1, [dedup_plan |-> dedup_plan,
                            value_to_keys |-> value_to_keys])
     IN /\ dedup_plan' = st.dedup_plan
        /\ value_to_keys' = st.value_to_keys
  /\ pc' = "save_plan"
  /\ UNCHANGED << tool_vars, fs, merge_vars, skip_policy, reference_mode,
                  localization_data, key_value_map, keeper, target_key >>

DedupNext ==
  \/ LoadLocalizationFile
  \/ ExtractKeyValuePairs
  \/ CreateDedupPlan

SpecDedup == DedupInit /\ [][DedupNext]_vars

(***************************************************************************)
(* choose_keeper and make_target_key on one group of paths:                *)
(* create_dedup_plan passes lists of two paths or more, here one path of   *)
(* CasingPaths put at any place of a list of 1..MaxGroup - 1 other paths.  *)
(***************************************************************************)
\* the strings over chars of length 1..n
RECURSIVE StringsUpTo(_, _)
StringsUpTo(chars, n) ==
  IF n = 0 THEN {}
  ELSE { <<c>> : c \in chars }
       \cup StringsUpTo(chars, n - 1)
       \cup { Append(t, c) : t \in StringsUpTo(chars, n - 1), c \in chars }

THREAT_ID_UPPER == <<"T", "h", "r", "e", "a", "t", "I", "D">>
THREAT_ID_CAMEL == <<"t", "h", "r", "e", "a", "t", "I", "d">>

\* final segments: every string of a lowercase letter, an uppercase letter
\* and a digit up to MaxSegLen, and the two spellings of the specification
CasingSegments ==
  StringsUpTo({"a", "B", "1"}, MaxSegLen)
    \cup { THREAT_ID_UPPER, THREAT_ID_CAMEL }

CasingPaths ==
  { sec \o <<".">> \o seg : sec \in { COMMON, <<"s">> }, seg \in CasingSegments }

\* the other members of a group
OtherPaths ==
  { COMMON \o <<".", "a">>, <<"s", ".", "a">>, <<"t", ".", "a">>,
    <<"s", ".", "a", ".", "a">>,
    <<"s", "e", "t", "t", "i", "n", "g", "s", ".">> \o THREAT_ID_UPPER }

RECURSIVE ListsOfLen(_, _)
ListsOfLen(set, n) ==
  IF n = 0 THEN { <<>> }
  ELSE { Append(l, x) : l \in ListsOfLen(set, n - 1), x \in set }

\* the list l with the path p put after its first i members
InsertAt(l, i, p) == SubSeq(l, 1, i) \o <<p>> \o SubSeq(l, i + 1, Len(l))

\* the value the paths of the group share
GROUP_VALUE == <<"h">>

PolicyInit ==
  /\ pc = "choose_keeper"
  /\ fs = [p \in Paths |-> Absent]
  /\ skip_policy = FALSE
  /\ reference_mode = FALSE
  /\ localization_data = NoDoc
  /\ key_value_map = <<>>
  /\ \E n \in 1..(MaxGroup - 1) :
       \E p \in CasingPaths, l \in ListsOfLen(OtherPaths, n), i \in 0..n :
         value_to_keys = << <<GROUP_VALUE, InsertAt(l, i, p)>> >>
  /\ dedup_plan = <<>>
  /\ keeper = <<>>
  /\ target_key = <<>>
  /\ MergeIdle
  /\ ToolsIdle

\* lines 103-108, on the list of the group
ChooseKeeper ==
  /\ pc = "choose_keeper"
  /\ keeper' = choose_keeper(value_to_keys[1][2])
  /\ pc' = "make_target_key"
  /\ UNCHANGED << tool_vars, fs, merge_vars, skip_policy, reference_mode,
                  localization_data, key_value_map, value_to_keys, dedup_plan,
                  target_key >>

\* lines 110-162, on the keeper
MakeTargetKey ==
  /\ pc = "make_target_key"
  /\ target_key' = make_target_key(keeper, value_to_keys[1][1])
  /\ pc' = "policy_done"
  /\ UNCHANGED << tool_vars, fs, merge_vars, skip_policy, reference_mode,
                  localization_data, key_value_map, value_to_keys, dedup_plan,
                  keeper >>

PolicyNext ==
  \/ ChooseKeeper
  \/ MakeTargetKey

SpecPolicy == PolicyInit /\ [][PolicyNext]_vars

(***************************************************************************)
(* sync_reference_keys.py.                                                 *)
(***************************************************************************)
\* the marker check_locale_file puts in place of the value of an absent key
MISSING == << "<", "m", "i", "s", "s", "i", "n", "g", ">" >>

\* flatten_json(data, prefix): a non-dict gives the empty mapping
RECURSIVE flatten_json(_, _)
RECURSIVE FlattenJsonItems(_, _, _, _)
FlattenJsonItems(data, prefix, i, items) ==
  IF i > Len(data) THEN items
  ELSE LET key == data[i][1]
           value == data[i][2]
           full_key == FullKey(prefix, key)
       IN FlattenJsonItems(data, prefix, i + 1,
            IF IsDict(value)
            THEN DictUpdate(items, flatten_json(value, full_key))
            ELSE DictSet(items, full_key, value))

flatten_json(data, prefix) ==
  IF IsDict(data) THEN FlattenJsonItems(data.items, prefix, 1, <<>>) ELSE <<>>

\* the walk of unflatten_set from current along parts: current[part] and
\* current[parts[-1]] = value raise TypeError on anything but a dict, and
\* current[part] raises KeyError on a dict without the key
RECURSIVE SetInNode(_, _, _)
SetInNode(current, parts, value) ==
  IF ~IsDict(current) THEN [raised |-> "TypeError", data |-> current]
  ELSE IF Len(parts) = 1
  THEN [raised |-> "none",
        data |-> Dict(DictSet(current.items, parts[1], value))]
  ELSE IF ~HasKey(current.items, parts[1])
  THEN [raised |-> "KeyError", data |-> current]
  ELSE LET r == SetInNode(DictGet(current.items, parts[1]), Tail(parts), value)
       IN [raised |-> r.raised,
           data |-> IF r.raised = "none"
                    THEN Dict(DictSet(current.items, parts[1], r.data))
                    ELSE current]

unflatten_set(flat_key, data, value) == SetInNode(data, Split(flat_key), value)

\* [a-zA-Z_]
IsIdentStart(c) == IsAlpha(c) \/ c = "_"

\* REFERENCE_RE.match(value) is not None, for
\* ^\{\{[a-zA-Z_][a-zA-Z0-9_]*\.[a-zA-Z0-9_.]+\}\}$ : "$" matches at the end
\* of the string and before a newline that ends it
REFERENCE_RE_match(value) ==
  LET n == Len(value)
      core == IF n > 0 /\ value[n] = "\n" THEN SubSeq(value, 1, n - 1)
              ELSE value
      m == Len(core)
      inner == SubSeq(core, 3, m - 2)
  IN /\ m >= 7
     /\ SubSeq(core, 1, 2) = <<"{", "{">>
     /\ SubSeq(core, m - 1, m) = <<"}", "}">>
     /\ IsIdentStart(inner[1])
     /\ \E p \in 2..(Len(inner) - 1) :
          /\ inner[p] = "."
          /\ \A j \in 2..(p - 1) : IsWord(inner[j])
          /\ \A j \in (p + 1)..Len(inner) : IsWord(inner[j]) \/ inner[j] = "."

\* find_reference_keys: key -> value (a str) for the matching leaves
find_reference_keys(data) ==
  LET flat == flatten_json(data, <<>>)
      IsRef(kv) == IsStr(kv[2]) /\ REFERENCE_RE_match(kv[2].val)
      kept == SelectSeq(flat, IsRef)
  IN [i \in 1..Len(kept) |-> << kept[i][1], kept[i][2].val >>]

\* check_locale_file: the loop over reference_keys.items() from entry i on;
\* flat.get(key) is None for an absent key and for a null value
RECURSIVE CheckFrom(_, _, _, _)
CheckFrom(flat, refs, i, acc) ==
  IF i > Len(refs) THEN acc
  ELSE LET key == refs[i][1]
           expected == refs[i][2]
           none == ~HasKey(flat, key) \/ DictGet(flat, key).kind = "null"
       IN CheckFrom(flat, refs, i + 1,
            IF none THEN Append(acc, << key, expected, Str(MISSING) >>)
            ELSE IF DictGet(flat, key) # Str(expected)
                 THEN Append(acc, << key, expected, DictGet(flat, key) >>)
            ELSE acc)

check_locale_file(locale_doc, refs) ==
  CheckFrom(flatten_json(locale_doc, <<>>), refs, 1, <<>>)

\* fix_locale_file: the loop over mismatches from entry i on; st holds
\* locale_data, fixed and the exception that left the loop, if any
RECURSIVE FixFrom(_, _, _)
FixFrom(mm, i, st) ==
  IF i > Len(mm) THEN st
  ELSE IF mm[i][3] = Str(MISSING) THEN FixFrom(mm, i + 1, st)
  ELSE LET r == unflatten_set(mm[i][1], st.locale_data, Str(mm[i][2]))
       IN IF r.raised = "TypeError"
          THEN [st EXCEPT !.raised = "TypeError"]
          ELSE IF r.raised = "KeyError" THEN FixFrom(mm, i + 1, st)
          ELSE FixFrom(mm, i + 1,
                 [st EXCEPT !.locale_data = r.data, !.fixed = st.fixed + 1])

fix_locale_file(locale_doc, mm) ==
  FixFrom(mm, 1, [raised |-> "none", locale_data |-> locale_doc, fixed |-> 0])

(***************************************************************************)
(* sync_reference_keys.main on the master and one other locale file.  The  *)
(* file calls of this script (load_json, save_json) are not guarded by the *)
(* code and are taken to succeed.                                          *)
(***************************************************************************)
\* the item lists with exactly n nodes whose keys are keys[j..], in the
\* order of keys, and the nodes made of exactly n nodes
RECURSIVE TreeItems(_, _, _, _)
RECURSIVE TreeNodes(_, _, _)
TreeItems(keys, leaves, n, j) ==
  IF n = 0 THEN { <<>> }
  ELSE IF j > Len(keys) THEN {}
  ELSE TreeItems(keys, leaves, n, j + 1)
       \cup UNION { { << <<keys[j], c>> >> \o rest :
                        c \in TreeNodes(keys, leaves, m),
                        rest \in TreeItems(keys, leaves, n - m, j + 1) } :
                    m \in 1..n }

TreeNodes(keys, leaves, n) ==
  IF n = 1 THEN leaves \cup { Dict(<<>>) }
  ELSE { Dict(items) : items \in TreeItems(keys, leaves, n - 1, 1) }

SyncKeys == << <<"a">>, <<"a", ".", "b">>, <<"b">> >>

REF_CO == << "{", "{", "c", ".", "o", "}", "}" >>

\* values of the master: a reference, a text, a simple variable, references
\* with an empty segment, with text around them, with a newline at the end
MasterLeaves ==
  { Str(REF_CO), Str(<<"h">>),
    Str(<< "{", "{", "n", "}", "}" >>),
    Str(<< "{", "{", "c", ".", ".", "o", "}", "}" >>),
    Str(<< "{", "{", "c", ".", "o", ".", "}", "}" >>),
    Str(<<"x">> \o REF_CO),
    Str(REF_CO \o <<"x">>),
    Str(REF_CO \o <<"\n">>) }

\* values of the other locale file: the reference, a text, null
LocaleLeaves == { Str(REF_CO), Str(<<"h">>), Leaf("null", <<"null">>) }

SyncIdle ==
  /\ args_fix = FALSE
  /\ master_data = NoDoc
  /\ reference_keys = <<>>
  /\ mismatches = <<>>
  /\ fixed = 0

SortIdle ==
  /\ main_data = NoDoc
  /\ diff_data = NoDoc
  /\ main_success = FALSE
  /\ auto_yes = FALSE
  /\ diff_files = <<>>
  /\ printed = {}

\* lines 127-142: main before it loads the master
SyncInit ==
  /\ pc = "load_master"
  /\ \E n \in 0..MaxMasterNodes, k \in 0..MaxLocaleNodes :
       \E m \in TreeItems(SyncKeys, MasterLeaves, n, 1),
          l \in TreeItems(SyncKeys, LocaleLeaves, k, 1) :
         fs = [p \in Paths |->
                 IF p = "master" THEN Complete(Dict(m))
                 ELSE IF p = "locale" THEN Complete(Dict(l))
                 ELSE Absent]
  /\ args_fix \in BOOLEAN
  /\ master_data = NoDoc
  /\ reference_keys = <<>>
  /\ mismatches = <<>>
  /\ fixed = 0
  /\ SortIdle
  /\ BatchIdle
  /\ result = "none"
  /\ MergeIdle
  /\ DedupIdle

\* lines 144-145
LoadMaster ==
  /\ pc = "load_master"
  /\ fs["master"].st = "complete"
  /\ master_data' = fs["master"].doc
  /\ reference_keys' = find_reference_keys(fs["master"].doc)
  /\ pc' = "check_locale_file"
  /\ UNCHANGED << fs, merge_vars, dedup_vars, sort_vars, batch_vars, unit_vars, result, args_fix,
                  mismatches, fixed >>

\* lines 165-175: check_locale_file on the locale file
CheckLocaleFile ==
  /\ pc = "check_locale_file"
  /\ mismatches' = check_locale_file(fs["locale"].doc, reference_keys)
  /\ pc' = IF mismatches' # <<>> /\ args_fix THEN "fix_locale_file"
           ELSE "sync_return"
  /\ UNCHANGED << fs, merge_vars, dedup_vars, sort_vars, batch_vars, unit_vars, result, args_fix,
                  master_data, reference_keys, fixed >>

\* lines 100-124 and 176-177: fix_locale_file returns
FixLocaleFile ==
  /\ pc = "fix_locale_file"
  /\ LET st == fix_locale_file(fs["locale"].doc, mismatches)
     IN /\ st.raised = "none"
        /\ fixed' = st.fixed
        /\ fs' = IF st.fixed > 0
                 THEN [fs EXCEPT !["locale"] = Complete(st.locale_data)]
                 ELSE fs
  /\ pc' = "sync_return"
  /\ UNCHANGED << merge_vars, dedup_vars, sort_vars, batch_vars, unit_vars, result, args_fix,
                  master_data, reference_keys, mismatches >>

\* line 116: unflatten_set raises TypeError, which nothing catches
FixLocaleFileRaises ==
  /\ pc = "fix_locale_file"
  /\ fix_locale_file(fs["locale"].doc, mismatches).raised = "TypeError"
  /\ pc' = "raised"
  /\ UNCHANGED << fs, merge_vars, dedup_vars, tool_vars >>

\* lines 183-198: the exit status
SyncReturn ==
  /\ pc = "sync_return"
  /\ result' = IF Len(mismatches) > 0 /\ ~args_fix THEN "1" ELSE "0"
  /\ pc' = "sync_done"
  /\ UNCHANGED << fs, merge_vars, dedup_vars, sync_vars, batch_vars, unit_vars, sort_vars >>

SyncNext ==
  \/ LoadMaster
  \/ CheckLocaleFile
  \/ FixLocaleFile
  \/ FixLocaleFileRaises
  \/ SyncReturn

SpecSync == SyncInit /\ [][SyncNext]_vars

(***************************************************************************)
(* sync_reference_keys.py: main over a directory with the master file and  *)
(* up to two sibling files.  A file that is "partial" holds text that       *)
(* json.load rejects.                                                      *)
(***************************************************************************)
MaxBatchNodes == 2

BatchMasterLeaves == { Str(REF_CO) }
BatchLocaleLeaves == { Str(REF_CO), Str(<<"h">>) }

\* the states of a sibling file of at most n nodes
SiblingFiles(n) ==
  { Absent, Partial(NoDoc) }
  \cup UNION { { Complete(Dict(items)) :
                   items \in TreeItems(SyncKeys, BatchLocaleLeaves, m, 1) } :
               m \in 0..n }

\* lines 155-159: sorted(I18N_DIR.glob("*.json")) without the master
Glob(files) ==
  (IF files["locale"].st # "absent" THEN << "locale" >> ELSE <<>>)
  \o (IF files["locale2"].st # "absent" THEN << "locale2" >> ELSE <<>>)

\* lines 127-137: main before it looks for the master
BatchInit ==
  /\ pc = "load_master"
  /\ \E n \in 0..MaxBatchNodes, k \in 0..MaxBatchNodes :
       \E m \in { Absent, Partial(NoDoc) }
                \cup { Complete(Dict(items)) :
                         items \in TreeItems(SyncKeys, BatchMasterLeaves, n, 1) },
          l \in SiblingFiles(k), l2 \in SiblingFiles(MaxBatchNodes - k) :
         fs = [p \in Paths |->
                 CASE p = "master" -> m
                   [] p = "locale" -> l
                   [] p = "locale2" -> l2
                   [] OTHER -> Absent]
  /\ args_fix \in BOOLEAN
  /\ master_data = NoDoc
  /\ reference_keys = <<>>
  /\ mismatches = <<>>
  /\ fixed = 0
  /\ BatchIdle
  /\ SortIdle
  /\ result = "none"
  /\ MergeIdle
  /\ DedupIdle

\* lines 139-142: the master file does not exist
MasterNotFound ==
  /\ pc = "load_master"
  /\ fs["master"].st = "absent"
  /\ result' = "1"
  /\ pc' = "sync_done"
  /\ UNCHANGED << fs, merge_vars, dedup_vars, sync_vars, sort_vars, batch_vars, unit_vars >>

\* line 144: load_json(master_path) raises json.JSONDecodeError
LoadMasterRaises ==
  /\ pc = "load_master"
  /\ fs["master"].st = "partial"
  /\ pc' = "raised"
  /\ UNCHANGED << fs, merge_vars, dedup_vars, tool_vars >>

\* lines 144-162: the master is loaded, the sibling files are listed
BatchLoadMaster ==
  /\ pc = "load_master"
  /\ fs["master"].st = "complete"
  /\ master_data' = fs["master"].doc
  /\ reference_keys' = find_reference_keys(fs["master"].doc)
  /\ locale_files' = Glob(fs)
  /\ file_index' = 1
  /\ total_mismatches' = 0
  /\ total_fixes' = 0
  /\ pc' = "for_locale_path"
  /\ UNCHANGED << fs, merge_vars, dedup_vars, sort_vars, result, args_fix,
                  mismatches, fixed, unit_vars >>

\* the lines main prints for the mismatches of one file (lines 168-172)
MismatchLines(locale_path, mm) ==
  { << "mismatch", locale_path, mm[i][1], mm[i][3] = Str(MISSING) >> :
      i \in 1..Len(mm) }

\* lines 164-175, 178-179: check_locale_file returns; no fix is to be made
BatchCheck ==
  /\ pc = "for_locale_path"
  /\ file_index <= Len(locale_files)
  /\ LET locale_path == locale_files[file_index]
         mm == check_locale_file(fs[locale_path].doc, reference_keys)
     IN /\ fs[locale_path].st = "complete"
        /\ mismatches' = mm
        /\ printed' = printed \cup MismatchLines(locale_path, mm)
        /\ total_mismatches' = total_mismatches + Len(mm)
        /\ IF mm # <<>> /\ args_fix
           THEN pc' = "fix_locale_file" /\ file_index' = file_index
           ELSE pc' = "for_locale_path" /\ file_index' = file_index + 1
  /\ UNCHANGED << fs, merge_vars, dedup_vars, result, args_fix, master_data,
                  reference_keys, fixed, main_data, diff_data, main_success,
                  auto_yes, diff_files, locale_files, total_fixes,
                  unit_vars >>

\* lines 165, 85: load_json(locale_path) in check_locale_file raises
\* json.JSONDecodeError, which nothing catches
BatchCheckRaises ==
  /\ pc = "for_locale_path"
  /\ file_index <= Len(locale_files)
  /\ fs[locale_files[file_index]].st = "partial"
  /\ pc' = "raised"
  /\ UNCHANGED << fs, merge_vars, dedup_vars, tool_vars >>

\* lines 176-179: fix_locale_file returns
BatchFix ==
  /\ pc = "fix_locale_file"
  /\ LET locale_path == locale_files[file_index]
         st == fix_locale_file(fs[locale_path].doc, mismatches)
     IN /\ st.raised = "none"
        /\ fixed' = st.fixed
        /\ total_fixes' = total_fixes + st.fixed
        /\ fs' = IF st.fixed > 0
                 THEN [fs EXCEPT ![locale_path] = Complete(st.locale_data)]
                 ELSE fs
  /\ file_index' = file_index + 1
  /\ pc' = "for_locale_path"
  /\ UNCHANGED << merge_vars, dedup_vars, sort_vars, result, args_fix,
                  master_data, reference_keys, mismatches, locale_files,
                  total_mismatches , unit_vars >>

\* lines 116, 122: unflatten_set raises TypeError, or save_json raises
\* OSError at open (the file is as it was) or while it writes (a part of
\* the text is on disk); nothing catches either
BatchFixRaises ==
  /\ pc = "fix_locale_file"
  /\ LET locale_path == locale_files[file_index]
         st == fix_locale_file(fs[locale_path].doc, mismatches)
     IN \/ /\ st.raised = "TypeError"
           /\ fs' = fs
        \/ /\ st.raised = "none"
           /\ st.fixed > 0
           /\ \/ fs' = fs
              \/ fs' = [fs EXCEPT ![locale_path] = Partial(st.locale_data)]
  /\ pc' = "raised"
  /\ UNCHANGED << merge_vars, dedup_vars, tool_vars >>

\* lines 186-190: the number main prints as "Unfixed (missing keys)"
unfixed == total_mismatches - total_fixes

\* lines 181-198: the totals are printed, the exit status is returned
BatchReturn ==
  /\ pc = "for_locale_path"
  /\ file_index > Len(locale_files)
  /\ result' = IF total_mismatches > 0 /\ ~args_fix THEN "1" ELSE "0"
  /\ pc' = "sync_done"
  /\ UNCHANGED << fs, merge_vars, dedup_vars, sync_vars, sort_vars, batch_vars, unit_vars >>

BatchNext ==
  \/ MasterNotFound
  \/ LoadMasterRaises
  \/ BatchLoadMaster
  \/ BatchCheck
  \/ BatchCheckRaises
  \/ BatchFix
  \/ BatchFixRaises
  \/ BatchReturn

SpecBatch == BatchInit /\ [][BatchNext]_vars

(***************************************************************************)
(* check-i18n.py and sort-json.py: the pure functions.                     *)
(***************************************************************************)
\* sort_json: OrderedDict(sorted((k, sort_json(v)) ...)) for a dict,
\* [sort_json(item) for item in obj] for a list
RECURSIVE sort_json(_)
RECURSIVE SortJsonItems(_, _, _)
SortJsonItems(items, i, acc) ==
  IF i > Len(items) THEN acc
  ELSE SortJsonItems(items, i + 1,
         InsertSorted(acc, << items[i][1], sort_json(items[i][2]) >>))

sort_json(obj) ==
  IF IsDict(obj) THEN Dict(SortJsonItems(obj.items, 1, <<>>))
  ELSE IF IsList(obj)
  THEN [obj EXCEPT !.items =
          [i \in 1..Len(obj.items) |->
             << obj.items[i][1], sort_json(obj.items[i][2]) >>]]
  ELSE obj

(***************************************************************************)
(* The two sorters applied to one tree: sort_nested_json as line 245 of    *)
(* merge-translations.py applies it to merged_nested, sort_json as         *)
(* load_and_sort_json applies it to the document of a file.                *)
(***************************************************************************)
SortKeys == { <<"a">>, <<"b">> }

\* leaves: a string, an array of two strings, an array that holds a mapping
SortLeaves ==
  { Str(<<"1">>),
    List(<< Str(<<"2">>), Str(<<"1">>) >>),
    List(<< Dict(<< << <<"b">>, Str(<<"1">>) >>,
                    << <<"a">>, Str(<<"1">>) >> >>) >>) }

\* the item lists, in every order of the keys, with exactly n nodes, and
\* the nodes made of exactly n nodes
RECURSIVE OrderedItems(_, _, _)
RECURSIVE OrderedNodes(_, _, _)
OrderedItems(keys, leaves, n) ==
  IF n = 0 THEN { <<>> }
  ELSE UNION { UNION { { << <<k, c>> >> \o rest :
                           rest \in { r \in OrderedItems(keys, leaves, n - m) :
                                        ~HasKey(r, k) } } :
                       k \in keys, c \in OrderedNodes(keys, leaves, m) } :
               m \in 1..n }

OrderedNodes(keys, leaves, n) ==
  IF n = 1 THEN leaves \cup { Dict(<<>>) }
  ELSE { Dict(items) : items \in OrderedItems(keys, leaves, n - 1) }

SortersInit ==
  /\ pc = "sort_nested_json"
  /\ \E n \in 0..MaxSortNodes : \E items \in OrderedItems(SortKeys, SortLeaves, n) :
       /\ merged_nested = Dict(items)
       /\ fs = [p \in Paths |-> IF p = "main" THEN Complete(Dict(items))
                                ELSE Absent]
  /\ original = NoDoc
  /\ translations = <<>>
  /\ valid_paths = {}
  /\ flat_original = <<>>
  /\ flat_merged = <<>>
  /\ keys_updated = 0
  /\ keys_added = 0
  /\ keys_unchanged = 0
  /\ total_keys = 0
  /\ merged_sorted = NoDoc
  /\ valid = FALSE
  /\ summary = NoSummary
  /\ DedupIdle
  /\ ToolsIdle

\* merge-translations.py line 245
SortNestedJson ==
  /\ pc = "sort_nested_json"
  /\ merged_sorted' = sort_nested_json(merged_nested)
  /\ pc' = "sort_json"
  /\ UNCHANGED << fs, dedup_vars, tool_vars, original, translations,
                  valid_paths, flat_original, flat_merged, keys_updated,
                  keys_added, keys_unchanged, total_keys, merged_nested, valid,
                  summary >>

\* check-i18n.py lines 31-33
SortJson ==
  /\ pc = "sort_json"
  /\ fs["main"].st = "complete"
  /\ main_data' = sort_json(fs["main"].doc)
  /\ pc' = "sorted"
  /\ UNCHANGED << fs, merge_vars, dedup_vars, sync_vars, batch_vars, unit_vars, diff_data,
                  main_success, auto_yes, diff_files, printed, result >>

SortersNext ==
  \/ SortNestedJson
  \/ SortJson

SpecSorters == SortersInit /\ [][SortersNext]_vars

(***************************************************************************)
(* check-i18n.py and sort-json.py: main on a main file and at most one     *)
(* diff file, without --dry-run.  The diff file is another path than the   *)
(* main file and is not the allowlist; load_allowlist and compare_keys     *)
(* read and print but change nothing that main returns or writes.  A file  *)
(* that is "partial" holds text that json.load rejects.                    *)
(***************************************************************************)
MaxFileNodes == 2

FileKeys == { <<"a">>, <<"b">> }
FileLeaves == { Str(<<"1">>) }

\* the states of a file of at most n nodes that main is given
GivenFiles(n) ==
  { Absent, Partial(NoDoc) }
  \cup UNION { { Complete(Dict(items)) :
                   items \in OrderedItems(FileKeys, FileLeaves, m) } :
               m \in 0..n }

\* what an earlier run left in the temporary directory
OldFiles == { Absent, Complete(NoDoc) }

SortInit ==
  /\ pc = "load_main"
  /\ \E n \in 0..MaxFileNodes :
       \E f \in GivenFiles(n), g \in GivenFiles(MaxFileNodes - n),
          o \in OldFiles, q \in OldFiles :
         fs = [p \in Paths |->
                 CASE p = "main" -> f
                   [] p = "diff" -> g
                   [] p = "old_main" -> o
                   [] p = "old_diff" -> q
                   [] OTHER -> Absent]
  /\ auto_yes \in BOOLEAN
  /\ diff_files \in { <<>>, << "diff" >> }
  /\ printed = {}
  /\ main_data = NoDoc
  /\ diff_data = NoDoc
  /\ main_success = FALSE
  /\ result = "none"
  /\ SyncIdle
  /\ BatchIdle
  /\ MergeIdle
  /\ DedupIdle

\* lines 216-227: confirm_overwrite may return False: the file exists, auto_yes
\* is not set and the answer is not "y"
MayDecline(file_path) == fs[file_path].st # "absent" /\ ~auto_yes

\* lines 230-270: the ways rename_and_save_json(data, original_path) can
\* end: the files it leaves, the value it returns and the message it prints
rename_and_save_json(data, original_path, old_path) ==
  LET renamed == [fs EXCEPT ![old_path] = fs[original_path],
                            ![original_path] = Absent]
  IN  \* lines 243-250: an overwrite is declined
      { [fs |-> fs, returned |-> FALSE, msg |-> "Cannot overwrite"] :
          x \in { p \in {old_path, original_path} : MayDecline(p) } }
      \* lines 254-259: os.rename raises OSError
      \cup { [fs |-> fs, returned |-> FALSE, msg |-> "Failed to rename"] }
      \* lines 262-270: open raises OSError after the rename
      \cup { [fs |-> renamed, returned |-> FALSE,
              msg |-> "Failed to save sorted JSON"] }
      \* lines 262-270: json.dump or f.write raises OSError after the rename
      \cup { [fs |-> [renamed EXCEPT ![original_path] = Partial(data)],
              returned |-> FALSE, msg |-> "Failed to save sorted JSON"] }
      \* lines 262-267: renamed and written
      \cup { [fs |-> [renamed EXCEPT ![original_path] = Complete(data)],
              returned |-> TRUE, msg |-> "Saved sorted JSON"] }

\* lines 28-39: the message load_and_sort_json prints when it returns None
LoadError(file_path) ==
  IF fs[file_path].st = "absent" THEN "not found" ELSE "is not valid JSON"

\* lines 275-277 (133-137 of sort-json.py): the main file is loaded
LoadMain ==
  /\ pc = "load_main"
  /\ fs["main"].st = "complete"
  /\ main_data' = sort_json(fs["main"].doc)
  /\ pc' = "save_main"
  /\ UNCHANGED << fs, merge_vars, dedup_vars, sync_vars, batch_vars, unit_vars, diff_data,
                  main_success, auto_yes, diff_files, printed, result >>

\* lines 275-277: load_and_sort_json returns None, main returns False
LoadMainFails ==
  /\ pc = "load_main"
  /\ fs["main"].st # "complete"
  /\ printed' = printed \cup { << LoadError("main"), "main" >> }
  /\ result' = "False"
  /\ pc' = "sort_done"
  /\ UNCHANGED << fs, merge_vars, dedup_vars, sync_vars, batch_vars, unit_vars, main_data, diff_data,
                  main_success, auto_yes, diff_files >>

\* lines 280-282: rename_and_save_json of the main file returns True
SaveMain ==
  /\ pc = "save_main"
  /\ \E o \in rename_and_save_json(main_data, "main", "old_main") :
       /\ o.returned
       /\ fs' = o.fs
       /\ printed' = printed \cup { << o.msg, "main" >> }
  /\ main_success' = TRUE
  /\ pc' = "diff_files"
  /\ UNCHANGED << merge_vars, dedup_vars, sync_vars, batch_vars, unit_vars, main_data, diff_data,
                  auto_yes, diff_files, result >>

\* lines 280-282: it returns False, main returns False
SaveMainFails ==
  /\ pc = "save_main"
  /\ \E o \in rename_and_save_json(main_data, "main", "old_main") :
       /\ ~o.returned
       /\ fs' = o.fs
       /\ printed' = printed \cup { << o.msg, "main" >> }
  /\ result' = "False"
  /\ pc' = "sort_done"
  /\ UNCHANGED << merge_vars, dedup_vars, sync_vars, batch_vars, unit_vars, main_data, diff_data,
                  main_success, auto_yes, diff_files >>

\* return success (line 317)
ReturnSuccess(success) ==
  /\ result' = IF success THEN "True" ELSE "False"
  /\ pc' = "sort_done"

\* lines 288, 317: no diff file is given
NoDiffFiles ==
  /\ pc = "diff_files"
  /\ diff_files = <<>>
  /\ ReturnSuccess(main_success)
  /\ UNCHANGED << fs, merge_vars, dedup_vars, sync_vars, batch_vars, unit_vars, sort_vars >>

\* lines 298-300: the diff file does not exist: a warning, continue
DiffNotFound ==
  /\ pc = "diff_files"
  /\ diff_files # <<>>
  /\ fs["diff"].st = "absent"
  /\ printed' = printed \cup { << "Warning: not found, skipping", "diff" >> }
  /\ ReturnSuccess(main_success)
  /\ UNCHANGED << fs, merge_vars, dedup_vars, sync_vars, batch_vars, unit_vars, main_data, diff_data,
                  main_success, auto_yes, diff_files >>

\* lines 303-306: load_and_sort_json returns None: a warning, continue
LoadDiffFails ==
  /\ pc = "diff_files"
  /\ diff_files # <<>>
  /\ fs["diff"].st = "partial"
  /\ printed' = printed \cup { << LoadError("diff"), "diff" >>,
                               << "Warning: Failed to load", "diff" >> }
  /\ ReturnSuccess(main_success)
  /\ UNCHANGED << fs, merge_vars, dedup_vars, sync_vars, batch_vars, unit_vars, main_data, diff_data,
                  main_success, auto_yes, diff_files >>

\* lines 303-310: the diff file is loaded and compared
LoadDiff ==
  /\ pc = "diff_files"
  /\ diff_files # <<>>
  /\ fs["diff"].st = "complete"
  /\ diff_data' = sort_json(fs["diff"].doc)
  /\ pc' = "save_diff"
  /\ UNCHANGED << fs, merge_vars, dedup_vars, sync_vars, batch_vars, unit_vars, main_data,
                  main_success, auto_yes, diff_files, printed, result >>

\* lines 313-317: rename_and_save_json of the diff file returns True
SaveDiff ==
  /\ pc = "save_diff"
  /\ \E o \in rename_and_save_json(diff_data, "diff", "old_diff") :
       /\ o.returned
       /\ fs' = o.fs
       /\ printed' = printed \cup { << o.msg, "diff" >> }
  /\ ReturnSuccess(main_success)
  /\ UNCHANGED << merge_vars, dedup_vars, sync_vars, batch_vars, unit_vars, main_data, diff_data,
                  main_success, auto_yes, diff_files >>

\* lines 313-317: it returns False: success = False
SaveDiffFails ==
  /\ pc = "save_diff"
  /\ \E o \in rename_and_save_json(diff_data, "diff", "old_diff") :
       /\ ~o.returned
       /\ fs' = o.fs
       /\ printed' = printed \cup { << o.msg, "diff" >> }
  /\ main_success' = FALSE
  /\ ReturnSuccess(FALSE)
  /\ UNCHANGED << merge_vars, dedup_vars, sync_vars, batch_vars, unit_vars, main_data, diff_data,
                  auto_yes, diff_files >>

SortNext ==
  \/ LoadMain
  \/ LoadMainFails
  \/ SaveMain
  \/ SaveMainFails
  \/ NoDiffFiles
  \/ DiffNotFound
  \/ LoadDiffFails
  \/ LoadDiff
  \/ SaveDiff
  \/ SaveDiffFails

SpecSort == SortInit /\ [][SortNext]_vars

(***************************************************************************)
(* LocalizationDeDuplicator.run on documents that hold the sections and    *)
(* the keys should_skip_key names: the same steps as SpecDedup.            *)
(***************************************************************************)
MaxSkipNodes == 3

\* the keys of these documents, in the order in which a document lists them
SkipKeys ==
  << <<"c", "o", "m", "m", "e", "n", "t">>,
     PRIVACY,
     THREAT_STATUS_PREFIX \o <<"x">>,
     MODEL_STATUS_PREFIX \o <<"x">>,
     TOS,
     <<"x">> >>
\* one text, so that any two leaves are duplicates of each other
SkipLeaves == { Str(<<"h">>) }

\* lines 23-30: __init__
SkipInit ==
  /\ pc = "load_localization_file"
  /\ \E n \in 0..MaxSkipNodes : \E items \in TreeItems(SkipKeys, SkipLeaves, n, 1) :
       fs = [p \in Paths |-> IF p = "loc" THEN Complete(Dict(items)) ELSE Absent]
  /\ skip_policy \in BOOLEAN
  /\ reference_mode \in BOOLEAN
  /\ localization_data = NoDoc
  /\ key_value_map = <<>>
  /\ value_to_keys = <<>>
  /\ dedup_plan = <<>>
  /\ keeper = <<>>
  /\ target_key = <<>>
  /\ MergeIdle
  /\ ToolsIdle

SpecSkip == SkipInit /\ [][DedupNext]_vars

(***************************************************************************)
(* LocalizationDeDuplicator.run on documents made of sections that hold    *)
(* string leaves: the same steps as SpecDedup.                             *)
(***************************************************************************)
MaxTargetLeaves == 4

\* the sections and the leaf keys, in the order in which a document lists
\* them, and the texts
TargetSections == << <<"a">>, <<"b">>, COMMON, <<"s">> >>
TargetLeafKeys == << <<"1", "B", "B">>, <<"1", "b", "B">>, <<"x">> >>
TargetTexts == { <<"h">>, <<"w">> }

\* the places (section, leaf key) where a document can hold a leaf
TargetSlots ==
  { << TargetSections[i], TargetLeafKeys[j] >> :
      i \in 1..Len(TargetSections), j \in 1..Len(TargetLeafKeys) }

\* the document with a leaf at every slot of slots, text[slot] its value
SectionItems(sec, slots, text) ==
  LET keys == SelectSeq(TargetLeafKeys, LAMBDA k : << sec, k >> \in slots)
  IN [j \in 1..Len(keys) |-> << keys[j], Str(text[<< sec, keys[j] >>]) >>]

SlotDoc(slots, text) ==
  LET secs == SelectSeq(TargetSections,
                        LAMBDA s : \E k \in DOMAIN text : k[1] = s)
  IN Dict([i \in 1..Len(secs) |->
             << secs[i], Dict(SectionItems(secs[i], slots, text)) >>])

\* lines 23-30: __init__
TargetsInit ==
  /\ pc = "load_localization_file"
  /\ \E n \in 0..MaxTargetLeaves :
       \E slots \in { t \in SUBSET TargetSlots : Cardinality(t) = n } :
         \E text \in [slots -> TargetTexts] :
           fs = [p \in Paths |->
                   IF p = "loc" THEN Complete(SlotDoc(slots, text)) ELSE Absent]
  /\ skip_policy \in BOOLEAN
  /\ reference_mode \in BOOLEAN
  /\ localization_data = NoDoc
  /\ key_value_map = <<>>
  /\ value_to_keys = <<>>
  /\ dedup_plan = <<>>
  /\ keeper = <<>>
  /\ target_key = <<>>
  /\ MergeIdle
  /\ ToolsIdle

SpecTargets == TargetsInit /\ [][DedupNext]_vars

(***************************************************************************)
(* merge-translations.py: find_path_segments called on its own, on every   *)
(* flat key over KeyChars of at most MaxKeyLen characters and every set of *)
(* interior paths made of character prefixes of the key.                   *)
(***************************************************************************)
MaxKeyLen == 5

KeyChars == { "a", "b", "." }

\* s[:i] for every i
CharPrefixes(s) == { SubSeq(s, 1, i) : i \in 0..Len(s) }

SegmentsInit ==
  /\ pc = "find_path_segments"
  /\ \E n \in 0..MaxKeyLen : \E k \in ListsOfLen(KeyChars, n) :
       \E P \in SUBSET CharPrefixes(k) :
         call_args = [flat_key |-> k, intermediate_paths |-> P]
  /\ call_ret = <<>>
  /\ fs = [p \in Paths |-> Absent]
  /\ locale_files = <<>>
  /\ file_index = 0
  /\ total_mismatches = 0
  /\ total_fixes = 0
  /\ SyncIdle
  /\ SortIdle
  /\ result = "none"
  /\ MergeIdle
  /\ DedupIdle

\* lines 90-120
FindPathSegments ==
  /\ pc = "find_path_segments"
  /\ call_ret' = find_path_segments(call_args.flat_key,
                                    call_args.intermediate_paths)
  /\ pc' = "returned"
  /\ UNCHANGED << fs, merge_vars, dedup_vars, sync_vars, sort_vars, batch_vars,
                  call_args, result >>

SpecSegments == SegmentsInit /\ [][FindPathSegments]_vars

(***************************************************************************)
(* The two reference patterns applied to the same string: is_key_reference *)
(* of find_duplicate_localizations.py and REFERENCE_RE of                  *)
(* sync_reference_keys.py, on every string over ValueChars of at most      *)
(* MaxValueLen characters.                                                 *)
(***************************************************************************)
MaxValueLen == 7

ValueChars == { "{", "}", ".", "a", "1" }

ClassifyInit ==
  /\ pc = "classify"
  /\ \E n \in 0..MaxValueLen : \E v \in ListsOfLen(ValueChars, n) :
       call_args = [value |-> v]
  /\ call_ret = <<>>
  /\ fs = [p \in Paths |-> Absent]
  /\ locale_files = <<>>
  /\ file_index = 0
  /\ total_mismatches = 0
  /\ total_fixes = 0
  /\ SyncIdle
  /\ SortIdle
  /\ result = "none"
  /\ MergeIdle
  /\ DedupIdle

\* find_duplicate_localizations.py lines 52-55 and sync_reference_keys.py
\* lines 33 and 75, on the same value
Classify ==
  /\ pc = "classify"
  /\ call_ret' = [detector |-> is_key_reference(call_args.value),
                  synchronizer |-> REFERENCE_RE_match(call_args.value)]
  /\ pc' = "classified"
  /\ UNCHANGED << fs, merge_vars, dedup_vars, sync_vars, sort_vars, batch_vars,
                  call_args, result >>

SpecClassify == ClassifyInit /\ [][Classify]_vars

(***************************************************************************)
(* Claims about merge-translations.py, checked under Spec.                 *)
(***************************************************************************)
\* the merge step has run: its results are in the variables
Merged == pc \in {"write_temp", "validate", "check_valid", "swap"}

\* C1: for every tree T, with P = get_intermediate_paths(T),
\* unflatten_json_with_structure(flatten_json_with_structure(T, P), P) = T.
\* With no translation entry the merge step computes exactly this round
\* trip of the destination tree, so its result must equal the tree.
C1_RoundTrip ==
  (Merged /\ translations = <<>>) => NodeEq(merged_nested, original)

\* flatten(D) overridden by X
Override(flat, trans) == DictUpdate(flat, trans)

\* C2: the tree written by a successful merge, flattened, equals the
\* flattened destination overridden by the translations.
C2_WrittenIsOverride ==
  summary.success =>
    FlatEq(flatten_json_with_structure(fs["loc"].doc.items, {}, <<>>),
           Override(flatten_json_with_structure(fs["bak"].doc.items, {}, <<>>),
                    translations))

\* the counts as the claim defines them, from the flattened destination and
\* the translations
UpdatedKeys ==
  { k \in DictKeys(translations) :
      HasKey(flat_original, k)
        /\ DictGet(flat_original, k) # DictGet(translations, k) }
AddedKeys == { k \in DictKeys(translations) : ~HasKey(flat_original, k) }
UnchangedKeys ==
  { k \in DictKeys(flat_original) :
      ~HasKey(translations, k)
        \/ DictGet(flat_original, k) = DictGet(translations, k) }

\* C3: updated, added, unchanged and total are the sizes of these sets and
\* of the merged flat mapping, updated + added + unchanged = total, and the
\* returned summary reports them.
C3_Counts ==
  /\ Merged =>
       /\ keys_updated = Cardinality(UpdatedKeys)
       /\ keys_added = Cardinality(AddedKeys)
       /\ keys_unchanged = Cardinality(UnchangedKeys)
       /\ total_keys = Cardinality(DictKeys(flat_merged))
       /\ keys_updated + keys_added + keys_unchanged = total_keys
  /\ (summary.returned /\ summary.error \notin
         {"Failed to load localization file",
          "Failed to load translations file"}) =>
       /\ summary.keys_updated = Cardinality(UpdatedKeys)
       /\ summary.keys_added = Cardinality(AddedKeys)
       /\ summary.keys_unchanged = Cardinality(UnchangedKeys)
       /\ summary.total_keys = Cardinality(DictKeys(flat_merged))
       /\ summary.keys_updated + summary.keys_added
            + summary.keys_unchanged = summary.total_keys

\* the example of the specification: one key updated, one added, one
\* unchanged, three in total, reported by a successful run
C3_Witness ==
  /\ summary.success
  /\ summary.keys_updated = 1
  /\ summary.keys_added = 1
  /\ summary.keys_unchanged = 1
  /\ summary.total_keys = 3

\* validation of the temp file has succeeded
ValidationSucceeded == pc = "swap" \/ (pc = "check_valid" /\ valid)

\* C4: no step taken before validation has succeeded changes the file at
\* the canonical path, so a run that fails at load, at the temp write or at
\* validation leaves it as it was; after a validation failure the temp
\* file is gone.
C4_UntouchedBeforeValidation ==
  /\ [][(pc # "done" /\ ~ValidationSucceeded) => fs'["loc"] = fs["loc"]]_vars
  /\ [](summary.error \in {"Failed to load localization file",
                            "Failed to load translations file",
                            "Failed to write temporary file",
                            "Validation failed"}
          => fs["loc"].st = "complete")
  /\ [](summary.error = "Validation failed" => fs["tmp"].st = "absent")

C4_Witness ==
  /\ summary.returned
  /\ summary.error = "Validation failed"
  /\ fs["loc"] = Complete(original)
  /\ fs["tmp"].st = "absent"
  /\ merged_sorted # original

\* C5: in every state of a merge the canonical path holds the complete
\* original or the complete validated replacement.
C5_CanonicalNeverAbsent ==
  /\ fs["loc"].st = "complete"
  /\ pc # "load_original" =>
       (summary.error = "Failed to load localization file"
          \/ fs["loc"].doc = original
          \/ fs["loc"].doc = merged_sorted)

\* C6: the original is renamed only after the temp file was written and
\* validated, the temp file is moved only after that rename, and a run that
\* reports success leaves the original in the backup, the merged document
\* at the canonical path and no temp file.
C6_StepOrder ==
  /\ [][(fs'["tmp"] # fs["tmp"] /\ fs'["tmp"].st # "absent") =>
          pc = "write_temp"]_vars
  /\ [][valid' # valid => (pc = "validate" /\ fs["tmp"].st = "complete")]_vars
  /\ [][(fs["loc"].st # "absent" /\ fs'["loc"].st = "absent") =>
          /\ valid
          /\ fs["tmp"] = Complete(merged_sorted)
          /\ fs'["bak"] = fs["loc"]]_vars
  /\ [][(fs'["loc"] # fs["loc"] /\ fs'["loc"].st # "absent") =>
          /\ pc = "swap"
          /\ fs["loc"].st = "absent"
          /\ fs["bak"] = Complete(original)
          /\ fs'["loc"] = fs["tmp"]
          /\ fs'["tmp"].st = "absent"]_vars
  /\ [](summary.success =>
          /\ fs["bak"] = Complete(original)
          /\ fs["loc"] = Complete(merged_sorted)
          /\ fs["tmp"].st = "absent"
          /\ summary.backup_file = "bak")

C6_Witness ==
  /\ summary.success
  /\ fs["bak"] = Complete(original)
  /\ fs["loc"] = Complete(merged_sorted)
  /\ fs["tmp"].st = "absent"
  /\ merged_sorted # original

\* the node of a tree at a list of segments, or Absent-like "none"
RECURSIVE NodeAt(_, _)
NodeAt(node, segs) ==
  IF segs = <<>> THEN node
  ELSE IF ~IsDict(node) \/ ~HasKey(node.items, segs[1]) THEN Leaf("none", <<>>)
  ELSE NodeAt(DictGet(node.items, segs[1]), Tail(segs))

IsProperPrefix(a, b) == Len(a) < Len(b) /\ SubSeq(b, 1, Len(a)) = a

SegmentsOf(i) == find_path_segments(flat_merged[i][1], valid_paths)

\* C25: unflatten_json_with_structure forces a prefix that holds a scalar
\* to become a mapping, in whatever order the flat keys are processed: in
\* the tree it returns, every flat key that is not itself the prefix of
\* another flat key holds its value at its segments, below mappings.
C25_PrefixForcedToMapping ==
  \A i \in 1..Len(flat_merged) :
    (\A j \in 1..Len(flat_merged) : ~IsProperPrefix(SegmentsOf(i), SegmentsOf(j)))
      => NodeAt(merged_nested, SegmentsOf(i)) = flat_merged[i][2]

\* C17: merge_translations never propagates an exception: every call ends
\* with a returned summary, and a summary without success carries an error
\* message and the counts gathered so far, whatever the JSON type of the
\* two documents and of the translations field.
C17_NoException ==
  /\ pc # "raised"
  /\ pc = "done" =>
       /\ summary.returned
       /\ ~summary.success => summary.error # "none"
       /\ summary.keys_updated = keys_updated
       /\ summary.keys_added = keys_added
       /\ summary.keys_unchanged = keys_unchanged
       /\ summary.total_keys = total_keys

(***************************************************************************)
(* Claims about find_path_segments, checked under SpecSegments.            *)
(***************************************************************************)
\* the dot-token prefixes of a key that end before its last token
TokenPrefixes(k) ==
  { Join(SubSeq(Split(k), 1, i)) : i \in 1..(Len(Split(k)) - 1) }

\* the places where a list of segments closes a segment before the last
Boundaries(segs) == { Join(SubSeq(segs, 1, m)) : m \in 1..(Len(segs) - 1) }

\* C26: find_path_segments(k, P) returns a non-empty list of segments whose
\* join with "." is k, with a boundary after exactly the dot-token prefixes
\* of k that are in P; when no prefix of k is in P it returns [k].
C26_Segments ==
  pc = "returned" =>
    LET k == call_args.flat_key
        P == call_args.intermediate_paths
    IN /\ Len(call_ret) >= 1
       /\ Join(call_ret) = k
       /\ Boundaries(call_ret) = TokenPrefixes(k) \cap P
       /\ (TokenPrefixes(k) \cup {k}) \cap P = {} => call_ret = << k >>

\* a key of three tokens whose first prefix is interior and whose second is
\* not: two segments, the second holding a dot
C26_Witness ==
  /\ pc = "returned"
  /\ Len(Split(call_args.flat_key)) = 3
  /\ Len(call_ret) = 2
  /\ Contains(call_ret[2], <<".">>)
  /\ call_args.intermediate_paths # {}

\* the destination file was read: original is its content
OriginalLoaded ==
  pc # "load_original" /\ summary.error # "Failed to load localization file"

OriginalAt(p) == fs[p] = Complete(original)

\* C30: the original destination content is never lost by a merge: in every
\* state, also after a failed swap and between the rename and the move, the
\* complete original is at the canonical path or at the backup path, and a
\* run that ends with the destination file at the backup path only (no
\* file at the canonical path) returns a failure result; a run that returns
\* success ends with the original at the backup path and the merged
\* document at the canonical path.
C30_OriginalNeverLost ==
  OriginalLoaded =>
    /\ OriginalAt("loc") \/ OriginalAt("bak")
    /\ (summary.returned /\ fs["loc"].st # "complete") => ~summary.success
    /\ (summary.returned /\ summary.success) =>
         OriginalAt("bak") /\ fs["loc"] = Complete(merged_sorted)

\* the move of the temp file failed after the rename: the original is at
\* the backup path only and the run reports the failure
C30_Witness ==
  /\ summary.returned
  /\ ~summary.success
  /\ summary.error = "Failed to swap files"
  /\ fs["loc"].st = "absent"
  /\ OriginalAt("bak")
  /\ merged_sorted # original

(***************************************************************************)
(* Claims about find_duplicate_localizations.py, checked under SpecDedup   *)
(* (the detector) and SpecPolicy (the keeper policy).                      *)
(***************************************************************************)
\* a Reference Value as the specification defines it: "{{", an identifier
\* segment, one or more times "." and an identifier segment, "}}"
IsReferenceValue(v) ==
  /\ Len(v) >= 4
  /\ SubSeq(v, 1, 2) = <<"{", "{">>
  /\ SubSeq(v, Len(v) - 1, Len(v)) = <<"}", "}">>
  /\ LET segs == Split(SubSeq(v, 3, Len(v) - 2))
     IN /\ Len(segs) >= 2
        /\ \A i \in 1..Len(segs) :
             /\ segs[i] # <<>>
             /\ \A j \in 1..Len(segs[i]) : IsWord(segs[i][j])

\* every leaf of a document with its dotted path: the set of <<path, node>>
RECURSIVE LeafOccurrences(_, _)
LeafOccurrences(items, prefix) ==
  UNION { IF IsDict(items[i][2])
          THEN LeafOccurrences(items[i][2].items, FullKey(prefix, items[i][1]))
          ELSE { << FullKey(prefix, items[i][1]), items[i][2] >> } :
          i \in 1..Len(items) }

\* the string leaves that no exclusion rule of the detector removes
SurvivingLeaves ==
  { o \in LeafOccurrences(localization_data.items, <<>>) :
      /\ IsStr(o[2])
      /\ ~should_skip_key(o[1])
      /\ ~IsReferenceValue(o[2].val) }

PathsHolding(v) == { o[1] : o \in { x \in SurvivingLeaves : x[2].val = v } }

ExpectedGroups ==
  { g \in { << o[2].val, PathsHolding(o[2].val) >> : o \in SurvivingLeaves } :
      Cardinality(g[2]) >= 2 }

PlanGroups ==
  { << dedup_plan[i].value,
       { dedup_plan[i].keys[n].key : n \in 1..Len(dedup_plan[i].keys) } >> :
    i \in 1..Len(dedup_plan) }

PlanBuilt == pc = "save_plan"

\* C7: the groups of the plan are exactly the sets of surviving string-leaf
\* paths that share a value and have at least two members, one entry each.
C7_GroupsExact ==
  PlanBuilt =>
    /\ PlanGroups = ExpectedGroups
    /\ Len(dedup_plan) = Cardinality(ExpectedGroups)

\* C8: a Reference Value is never the value of a group, and a path that
\* holds one is not among the analysed keys (key_value_map): every analysed
\* key is a path of a string leaf that is not a Reference Value.
C8_ReferencesExcluded ==
  /\ \A i \in 1..Len(dedup_plan) : ~IsReferenceValue(dedup_plan[i].value)
  /\ \A i \in 1..Len(value_to_keys) : ~IsReferenceValue(value_to_keys[i][1])
  /\ \A i \in 1..Len(key_value_map) :
       /\ ~IsReferenceValue(key_value_map[i][2])
       /\ \E o \in LeafOccurrences(localization_data.items, <<>>) :
            /\ o[1] = key_value_map[i][1]
            /\ IsStr(o[2])
            /\ o[2].val = key_value_map[i][2]

\* a Reference Value held by two paths, next to an analysed key: no group
C8_Witness ==
  /\ PlanBuilt
  /\ \E o1, o2 \in LeafOccurrences(localization_data.items, <<>>) :
       /\ o1[1] # o2[1]
       /\ o1[2] = o2[2]
       /\ IsStr(o1[2])
       /\ IsReferenceValue(o1[2].val)
       /\ ~should_skip_key(o1[1])
       /\ ~should_skip_key(o2[1])
  /\ Len(key_value_map) = 1
  /\ dedup_plan = <<>>

\* the member paths of plan entry e, in the order of the entry
EntryKeys(e) == [n \in 1..Len(e.keys) |-> e.keys[n].key]
EntryKeeper(e) == choose_keeper(EntryKeys(e))
EntryTarget(e) == make_target_key(EntryKeeper(e), e.value)
KeepTypes == {"KEEP", "MOVE"}

\* C14: in every plan entry each member path has one action and the keeper
\* alone has a keep-type action: in reference mode KEEP of its own path, the
\* others REFER to {{keeper}}; in legacy mode KEEP if its path is the target
\* and MOVE to the target otherwise, the others DELETE with a refactor note
\* that renames them to the target.
C14_PlanActions ==
  PlanBuilt =>
    \A i \in 1..Len(dedup_plan) :
      LET e == dedup_plan[i]
          kp == EntryKeeper(e)
          target == EntryTarget(e)
      IN /\ { e.keys[n].key : n \in 1..Len(e.keys) }
              = { DictGet(value_to_keys, e.value)[n] :
                    n \in 1..Len(DictGet(value_to_keys, e.value)) }
         /\ \A n1, n2 \in 1..Len(e.keys) :
              e.keys[n1].key = e.keys[n2].key
                => e.keys[n1].action = e.keys[n2].action
         /\ { e.keys[n].key : n \in { x \in 1..Len(e.keys) :
                                        e.keys[x].action \in KeepTypes } }
              = { kp }
         /\ \A n \in 1..Len(e.keys) :
              LET k == e.keys[n]
              IN IF reference_mode
                 THEN IF k.key = kp
                      THEN /\ k.action = "KEEP"
                           /\ k.instruction = << "KEEP", kp >>
                      ELSE /\ k.action = "REFER"
                           /\ k.instruction
                                = << "REFER", k.key, "TO",
                                     <<"{", "{">> \o kp \o <<"}", "}">> >>
                 ELSE IF k.key = kp
                      THEN /\ k.action = (IF kp = target THEN "KEEP" ELSE "MOVE")
                           /\ k.action = "MOVE"
                                => k.instruction = << "MOVE", kp, "TO", target >>
                      ELSE /\ k.action = "DELETE"
                           /\ k.instruction = << "DELETE", k.key >>
                           /\ k.refactor
                                = << "REFACTOR rename", k.key, "to", target >>

\* a legacy plan that moves the keeper and deletes the other member
C14_Witness ==
  /\ PlanBuilt
  /\ ~reference_mode
  /\ \E i \in 1..Len(dedup_plan) :
       /\ \E n \in 1..Len(dedup_plan[i].keys) :
            dedup_plan[i].keys[n].action = "MOVE"
       /\ \E n \in 1..Len(dedup_plan[i].keys) :
            dedup_plan[i].keys[n].action = "DELETE"

\* the order of the claim on paths: section score, casing score, length of
\* the path, the path itself
TopSegment(k) == Split(k)[1]
LastSegment(k) == Split(k)[Len(Split(k))]
SectionScore(k) == IF TopSegment(k) = COMMON THEN 0 ELSE 1
CasingScore(k) == score_key(k)[2]
KeeperBefore(a, b) ==
  IF SectionScore(a) # SectionScore(b) THEN SectionScore(a) < SectionScore(b)
  ELSE IF CasingScore(a) # CasingScore(b) THEN CasingScore(a) < CasingScore(b)
  ELSE IF Len(a) # Len(b) THEN Len(a) < Len(b)
  ELSE StrLess(a, b)

GroupKeys == { value_to_keys[1][2][i] : i \in 1..Len(value_to_keys[1][2]) }
KeeperChosen == pc \in {"make_target_key", "policy_done"}

\* C9: the keeper is the least member of the group in this order, whatever
\* the order of the list, and it lies under common when a member does.
C9_KeeperIsMinimum ==
  KeeperChosen =>
    /\ keeper \in GroupKeys
    /\ \A k \in GroupKeys \ {keeper} : KeeperBefore(keeper, k)
    /\ (\E k \in GroupKeys : TopSegment(k) = COMMON)
         => TopSegment(keeper) = COMMON

\* the example of the specification, the common member given last
C9_Witness ==
  /\ KeeperChosen
  /\ value_to_keys[1][2] =
       << <<"s", "e", "t", "t", "i", "n", "g", "s", ".">> \o THREAT_ID_UPPER,
          COMMON \o <<".">> \o THREAT_ID_CAMEL >>
  /\ keeper = COMMON \o <<".">> \o THREAT_ID_CAMEL

\* C10: in the final segment of a computed target the first character is
\* not uppercase, every other uppercase character has a lowercase letter
\* right before or right after it, and ThreatID becomes threatId.
C10_TargetCasing ==
  pc = "policy_done" =>
    LET seg == LastSegment(target_key)
    IN /\ seg # <<>> => ~IsUpper(seg[1])
       /\ \A i \in 2..Len(seg) :
            IsUpper(seg[i]) =>
              \/ IsLower(seg[i - 1])
              \/ (i < Len(seg) /\ IsLower(seg[i + 1]))
       /\ LastSegment(keeper) = THREAT_ID_UPPER => seg = THREAT_ID_CAMEL

\* the path without its final segment
ParentPath(k) == SubSeq(Split(k), 1, Len(Split(k)) - 1)
GroupSections == { TopSegment(k) : k \in GroupKeys }
Promoted == Cardinality(GroupKeys) >= 3 \/ Cardinality(GroupSections) > 1

\* C15: for a keeper outside common the target lies under common exactly
\* when the group has three member paths or more or spans more than one
\* top-level section, and keeps the keeper's parent path otherwise; for a
\* keeper under common the target keeps the keeper's parent path.
C15_PromotionRule ==
  pc = "policy_done" =>
    IF TopSegment(keeper) # COMMON
    THEN /\ (TopSegment(target_key) = COMMON) <=> Promoted
         /\ ~Promoted => ParentPath(target_key) = ParentPath(keeper)
    ELSE ParentPath(target_key) = ParentPath(keeper)

\* the paths the exclusion rules name: the comment suffix, the two enum-like
\* prefixes and, with the policy-skip flag, a top-level segment privacy or tos
UnderPolicy(path) == TopSegment(path) \in {PRIVACY, TOS}

CommentOrEnum(path) ==
  \/ EndsWith(path, DOT_COMMENT)
  \/ StartsWith(path, THREAT_STATUS_PREFIX)
  \/ StartsWith(path, MODEL_STATUS_PREFIX)

ExcludedPath(path) == CommentOrEnum(path) \/ (skip_policy /\ UnderPolicy(path))

\* the path and the paths of the mappings above it
AncestorPaths(path) ==
  { SubSeq(path, 1, k) : k \in { j \in 1..Len(path) :
                                  j = Len(path) \/ path[j + 1] = "." } }

\* every path the detector holds: analysed keys, grouped keys, plan keys
HeldPaths ==
  DictKeys(key_value_map)
  \cup UNION { { value_to_keys[i][2][n] : n \in 1..Len(value_to_keys[i][2]) } :
               i \in 1..Len(value_to_keys) }
  \cup UNION { { dedup_plan[i].keys[n].key : n \in 1..Len(dedup_plan[i].keys) } :
               i \in 1..Len(dedup_plan) }

\* the string leaves under privacy or tos that rules 1, 2 and 4 leave alone
PolicyLeaves ==
  { o \in LeafOccurrences(localization_data.items, <<>>) :
      /\ IsStr(o[2])
      /\ UnderPolicy(o[1])
      /\ \A a \in AncestorPaths(o[1]) : ~CommentOrEnum(a)
      /\ ~IsReferenceValue(o[2].val) }

\* C16: no excluded path (comment suffix, enum-like prefix, and with the
\* policy-skip flag a top-level segment privacy or tos) is an analysed key,
\* a member of a group or a key of the plan; without the flag the string
\* leaves under privacy and tos are analysed, are grouped under their value
\* and, when two of them share a value, are keys of the plan.
C16_SkipRules ==
  /\ \A p \in HeldPaths : ~ExcludedPath(p)
  /\ (~skip_policy /\ pc \in {"create_dedup_plan", "save_plan"}) =>
       \A o \in PolicyLeaves :
         /\ o[1] \in DictKeys(key_value_map)
         /\ \E i \in 1..Len(value_to_keys) :
              /\ value_to_keys[i][1] = o[2].val
              /\ \E n \in 1..Len(value_to_keys[i][2]) :
                   value_to_keys[i][2][n] = o[1]
         /\ (PlanBuilt /\ \E o2 \in PolicyLeaves :
                            o2[1] # o[1] /\ o2[2].val = o[2].val) =>
              \E i \in 1..Len(dedup_plan) :
                /\ dedup_plan[i].value = o[2].val
                /\ \E n \in 1..Len(dedup_plan[i].keys) :
                     dedup_plan[i].keys[n].key = o[1]

\* with the flag: a leaf under privacy or tos and a leaf that the comment or
\* the enum rule names hold the text of the only analysed key
C16_Witness ==
  /\ PlanBuilt
  /\ skip_policy
  /\ Len(key_value_map) = 1
  /\ \E o1, o2 \in LeafOccurrences(localization_data.items, <<>>) :
       /\ IsStr(o1[2]) /\ UnderPolicy(o1[1])
       /\ IsStr(o2[2]) /\ CommentOrEnum(o2[1])
       /\ ~UnderPolicy(o2[1])
       /\ o1[2].val = key_value_map[1][2]
       /\ o2[2].val = key_value_map[1][2]

\* the casing score as the claim words it: 0 for a lowercase first letter,
\* else 1, and a penalty point for an uppercase letter after the first
\* character that no lowercase letter precedes or follows
IsolatedUpper(seg, i) ==
  /\ IsUpper(seg[i])
  /\ ~IsLower(seg[i - 1])
  /\ ~(i < Len(seg) /\ IsLower(seg[i + 1]))

ExpectedCasing(seg) ==
  (IF seg # <<>> /\ IsLower(seg[1]) THEN 0 ELSE 1)
  + (IF \E i \in 2..Len(seg) : IsolatedUpper(seg, i) THEN 1 ELSE 0)

\* C22: for every member of a group that choose_keeper has scored, the
\* casing score of score_key is 0 for a lowercase-initial final segment and
\* 1 otherwise, plus 1 exactly when the final segment has, after its first
\* character, an uppercase letter with no lowercase neighbour; threatId
\* scores 0.
C22_CasingScore ==
  KeeperChosen =>
    \A k \in GroupKeys : CasingScore(k) = ExpectedCasing(LastSegment(k))

\* the target path a legacy plan entry names: where its keeper is moved,
\* or the keeper's own path when it is kept
PlanTarget(e) ==
  LET k == e.keys[CHOOSE n \in 1..Len(e.keys) : e.keys[n].action \in KeepTypes]
  IN IF k.action = "MOVE" THEN k.instruction[4] ELSE k.key

LegacyPlanBuilt == PlanBuilt /\ ~reference_mode

\* C27: in a legacy plan no two groups have the same target path, and the
\* target path of a group is not the path of a leaf of the document that
\* holds another value.
C27_TargetsCollisionFree ==
  LegacyPlanBuilt =>
    /\ \A i, j \in 1..Len(dedup_plan) :
         i # j => PlanTarget(dedup_plan[i]) # PlanTarget(dedup_plan[j])
    /\ \A i \in 1..Len(dedup_plan) :
         \A o \in LeafOccurrences(localization_data.items, <<>>) :
           o[1] = PlanTarget(dedup_plan[i]) => o[2] = Str(dedup_plan[i].value)

\* C28: in a legacy plan the target path of a group is not the path of a
\* member of the group that the plan deletes.
C28_TargetNotDeleted ==
  LegacyPlanBuilt =>
    \A i \in 1..Len(dedup_plan) :
      \A n \in 1..Len(dedup_plan[i].keys) :
        dedup_plan[i].keys[n].action = "DELETE"
          => dedup_plan[i].keys[n].key # PlanTarget(dedup_plan[i])

\* C29: the detector's is_key_reference and the synchronizer's REFERENCE_RE
\* classify every string identically: one accepts a value exactly when the
\* other does, so a value without a dot such as {{name}} is accepted by
\* neither.
C29_SameClassification ==
  pc = "classified" => call_ret.detector = call_ret.synchronizer

(***************************************************************************)
(* Claims about sync_reference_keys.py, checked under SpecSync.            *)
(***************************************************************************)
\* fix_locale_file has run on the locale file and has returned
FixReturns == pc = "fix_locale_file" /\ pc' = "sync_return"

\* the entries of reference_keys that the flattened locale file holds with
\* another value than the master's
WrongBefore ==
  LET before == flatten_json(fs["locale"].doc, <<>>)
  IN { i \in 1..Len(reference_keys) :
         /\ HasKey(before, reference_keys[i][1])
         /\ DictGet(before, reference_keys[i][1]) # Str(reference_keys[i][2]) }

\* C11: when fix mode has run, every reference key that the flattened locale
\* file held with a value other than the master's holds the master's string,
\* and the returned count is the number of these keys.
C11_FixRepairs ==
  [][FixReturns =>
       LET after == flatten_json(fs'["locale"].doc, <<>>)
       IN /\ \A i \in WrongBefore :
               /\ HasKey(after, reference_keys[i][1])
               /\ DictGet(after, reference_keys[i][1]) = Str(reference_keys[i][2])
          /\ fixed' = Cardinality(WrongBefore)]_vars

\* the keys of a tree at every nesting level, each with the keys above it
RECURSIVE KeyPathsOf(_, _)
KeyPathsOf(items, above) ==
  UNION { { Append(above, items[i][1]) }
            \cup (IF IsDict(items[i][2])
                  THEN KeyPathsOf(items[i][2].items, Append(above, items[i][1]))
                  ELSE {}) :
          i \in 1..Len(items) }

\* C12: fix mode creates no key: the keys of the locale tree at every level
\* are the same before and after fix_locale_file, and a reference key absent
\* from the flattened tree before is absent after.
C12_FixCreatesNoKey ==
  [][FixReturns =>
       /\ KeyPathsOf(fs'["locale"].doc.items, <<>>)
            = KeyPathsOf(fs["locale"].doc.items, <<>>)
       /\ \A i \in 1..Len(reference_keys) :
            ~HasKey(flatten_json(fs["locale"].doc, <<>>), reference_keys[i][1])
              => ~HasKey(flatten_json(fs'["locale"].doc, <<>>),
                         reference_keys[i][1])]_vars

MasterLoaded ==
  pc \in {"check_locale_file", "fix_locale_file", "sync_return", "sync_done"}

\* C20: find_reference_keys returns exactly the string leaves of the master
\* whose whole value is "{{", an identifier segment, one or more times "."
\* and an identifier segment, "}}".
C20_ReferenceKeysExact ==
  MasterLoaded =>
    { << reference_keys[i][1], reference_keys[i][2] >> :
        i \in 1..Len(reference_keys) }
      = { << o[1], o[2].val >> :
            o \in { x \in LeafOccurrences(master_data.items, <<>>) :
                      IsStr(x[2]) /\ IsReferenceValue(x[2].val) } }

\* the reports of check_locale_file about one reference key
ReportsFor(mm, key) == { mm[i] : i \in { j \in 1..Len(mm) : mm[j][1] = key } }

\* the report the claim describes for the reference key refs[i] against
\* the flattened sibling flat
ExpectedReports(flat, key, expected) ==
  IF ~HasKey(flat, key) THEN { << key, expected, Str(MISSING) >> }
  ELSE IF DictGet(flat, key) # Str(expected)
  THEN { << key, expected, DictGet(flat, key) >> }
  ELSE {}

\* C23: check_locale_file reports, for each reference key of the master,
\* MISSING exactly when the path is absent from the flattened sibling, the
\* sibling's actual value exactly when the path is present with another
\* value (null and non-string values included), and nothing exactly when
\* the value is identical.
C23_CheckReports ==
  [][ (pc = "check_locale_file" /\ pc' # "check_locale_file") =>
        \A i \in 1..Len(reference_keys) :
          ReportsFor(mismatches', reference_keys[i][1])
            = ExpectedReports(flatten_json(fs["locale"].doc, <<>>),
                              reference_keys[i][1], reference_keys[i][2]) ]_vars

(***************************************************************************)
(* Claims about the loop of sync_reference_keys.main, checked under        *)
(* SpecBatch.                                                              *)
(***************************************************************************)
\* the run of main is over: it returned or an exception left it
RunEnded == pc \in {"sync_done", "raised"}

\* C21: one sibling file that cannot be parsed or written does not end the
\* run: once the loop over the sibling files has started, the run ends only
\* after every sibling file of the batch was processed.
C21_PerFileIsolation ==
  (RunEnded /\ file_index >= 1) => file_index > Len(locale_files)

\* the mismatches, over all sibling files, that main printed with the
\* actual value MISSING
MissingReported == { m \in printed : m[1] = "mismatch" /\ m[4] }

\* C24: in fix mode, when main returns, the mismatch count is the fixed
\* count plus the unfixed count, and the unfixed count, which main reports
\* as due to missing keys, is the number of mismatches whose actual value is
\* MISSING, over all sibling files.
C24_UnfixedAreMissing ==
  (pc = "sync_done" /\ args_fix /\ file_index >= 1) =>
    /\ total_mismatches = total_fixes + unfixed
    /\ unfixed = Cardinality(MissingReported)

(***************************************************************************)
(* Claims about the sorters, checked under SpecSorters.                    *)
(***************************************************************************)
\* every mapping of the tree, inside arrays too, has ascending keys
RECURSIVE AllMappingsSorted(_)
AllMappingsSorted(node) ==
  /\ IsDict(node) =>
       \A i \in 1..(Len(node.items) - 1) :
         StrLess(node.items[i][1], node.items[i + 1][1])
  /\ \A i \in 1..Len(node.items) : AllMappingsSorted(node.items[i][2])

\* the leaves of a tree, each with the keys and array positions that lead
\* to it; a position i is kept as i marks, an empty mapping or array counts
RECURSIVE PathLeaves(_, _)
PathLeaves(node, above) ==
  IF node.items = <<>> THEN { << above, node >> }
  ELSE UNION { PathLeaves(node.items[i][2],
                 Append(above,
                        IF IsDict(node) THEN << "key", node.items[i][1] >>
                        ELSE << "at", [j \in 1..i |-> "i"] >>)) :
               i \in 1..Len(node.items) }

Canonical(t, sorted, again) ==
  /\ again = sorted
  /\ AllMappingsSorted(sorted)
  /\ PathLeaves(sorted, <<>>) = PathLeaves(t, <<>>)

AllOrNothing(path, data) ==
  /\ fs'[path].st = "complete"
  /\ fs'[path].doc \in { fs[path].doc, data }

\* C18: rename_and_save_json is all-or-nothing: whenever a call returns,
\* with True or False, the canonical path holds the complete original
\* content or the complete sorted content, never nothing and never a part.
C18_SaveAllOrNothing ==
  [][ /\ (pc = "save_main" /\ pc' # "save_main")
         => AllOrNothing("main", main_data)
      /\ (pc = "save_diff" /\ pc' # "save_diff")
         => AllOrNothing("diff", diff_data) ]_vars

\* the messages that report a file that failed
FailureMessages ==
  { "not found", "is not valid JSON", "Cannot overwrite", "Failed to rename",
    "Failed to save sorted JSON", "Warning: not found, skipping",
    "Warning: Failed to load" }

SomeFileFailed == \E m \in printed : m[1] \in FailureMessages

\* C19: main returns False if and only if at least one of the files it was
\* given failed: a file that does not exist, cannot be parsed or cannot be
\* saved.
C19_ResultReflectsFailure ==
  pc = "sort_done" => (result = "False" <=> SomeFileFailed)

=============================================================================
